---- MODULE Spec2Model ----
(***************************************************************************)
(* Verification model of the ai-digrm diagram application.                 *)
(*                                                                         *)
(* Spec models the conversation orchestrator of App (unnamed/part_000):    *)
(* the React state `nodes`, `edges`, `isLoading`, `focusedNodeId`,         *)
(* `editingNodeId`, the ref `lastUserNodeId`, and the turns whose          *)
(* collaborator call has not settled yet.  SpecPlace runs the placement    *)
(* search findNonOverlappingPosition by itself, one loop pass per step.    *)
(*                                                                         *)
(* React semantics used throughout: the state updates a handler queues     *)
(* (setNodes / setEdges) are applied together when the handler returns or  *)
(* reaches its first await; a plain value replaces whatever was queued     *)
(* before it, a functional update is applied to it.  The effects that copy *)
(* `nodes` / `edges` into `nodesRef` / `edgesRef` run after that commit,   *)
(* so inside a handler the refs still hold the state the handler started   *)
(* from; between handlers they equal the state, which is how the model     *)
(* defines them.                                                           *)
(*                                                                         *)
(* Numbers: world coordinates are floats in the program; the model keeps   *)
(* them as integers and takes cos / sin from a table in thousandths for    *)
(* the fourteen directions k * pi/7 (the spiral turns by pi/3.5, i.e. two  *)
(* table entries).                                                         *)
(***************************************************************************)
EXTENDS Integers, Sequences, FiniteSets, TLC

\* ------------------------------------------------------------------ bounds
\* Date.now() is read as the number of handler runs that changed the diagram
\* by starting or ending a turn; no turn starts or ends at this reading.
MaxNow == 4

\* the same reading of Date.now() in SpecEarly, the specification that
\* also takes the early returns of the handlers as steps
MaxEarlyNow == 3

\* SpecView: the number of times the viewport transform is set
MaxMoves == 2

\* ------------------------------------------------------- program constants
NODE_WIDTH == 350
USER_NODE_HEIGHT == 80
AI_NODE_BASE_HEIGHT == 150
SOURCE_NODE_HEIGHT == 80
CODE_NODE_WIDTH == 500
CODE_NODE_HEIGHT == 200
START_NODE_WIDTH == NODE_WIDTH + 50
PADDING == 80
maxAttemptsLonger == 200 + 50
maxAttempts == 200
InitialStep == 250
StepIncrease == 150
TurnsPerRing == 7
SendDistance == 600
ThinkingOffsetY == 350
AiFallbackOffsetY == 600
AttachedOffsetY == 400
MaxEstimatedHeight == 800

\* ------------------------------------------------------------------- text
\* A text is a sequence of one-character strings.
Whitespace == {" ", "\n"}

RECURSIVE TrimLeft(_)
TrimLeft(t) ==
    IF t = <<>> THEN <<>>
    ELSE IF Head(t) \in Whitespace THEN TrimLeft(Tail(t)) ELSE t

RECURSIVE TrimRight(_)
TrimRight(t) ==
    IF t = <<>> THEN <<>>
    ELSE IF t[Len(t)] \in Whitespace THEN TrimRight(SubSeq(t, 1, Len(t) - 1)) ELSE t

TrimNothing(t) == t

\* String.prototype.trim
Trim(t) == TrimRight(TrimLeft(t))

\* (text.match(/\n/g) || []).length + 1
LineCount(t) == Cardinality({i \in 1..Len(t) : t[i] = "\n"}) + 1

\* --------------------------------------------------------------- geometry
Abs(a) == IF a < 0 THEN -a ELSE a
Max(a, b) == IF a >= b THEN a ELSE b
Min(a, b) == IF a <= b THEN a ELSE b

CosT == <<1000, 901, 623, 223, -223, -623, -901, -1000, -901, -623, -223, 223, 623, 901>>
SinT == <<0, 434, 782, 975, 975, 782, 434, 0, -434, -782, -975, -975, -782, -434>>
NumDirs == Len(CosT)
\* Math.cos / Math.sin of direction k (angle k * pi/7), in thousandths
Cos(k) == CosT[(k % NumDirs) + 1]
Sin(k) == SinT[(k % NumDirs) + 1]

\* start + r * (cos, sin)
Polar(startPos, r, k) ==
    [x |-> startPos.x + ((r * Cos(k)) \div 1000),
     y |-> startPos.y + ((r * Sin(k)) \div 1000)]

\* the collision test of one candidate rectangle against one node:
\* dx < (w + node.width)/2 + PADDING && dy < (h + node.height)/2 + PADDING
CollidesWithUnpadded(pos, w, h, n) ==
    /\ 2 * Abs(pos.x - n.position.x) < w + n.width
    /\ 2 * Abs(pos.y - n.position.y) < h + n.height

CollidesWith(pos, w, h, n) ==
    /\ 2 * Abs(pos.x - n.position.x) < w + n.width + 2 * PADDING
    /\ 2 * Abs(pos.y - n.position.y) < h + n.height + 2 * PADDING

\* the for-loop over the nodes
Collides(ns, pos, w, h) == \E i \in 1..Len(ns) : CollidesWith(pos, w, h, ns[i])

\* a search that steps on from the probe it tried last
SpiralBodyFromLastProbe(ns, startPos, w, h, st) ==
    IF Collides(ns, st.pos, w, h)
    THEN [pos |-> Polar(st.pos, st.step, st.angle),
          isOverlapping |-> TRUE,
          attempts |-> st.attempts + 1,
          angle |-> (st.angle + 2) % NumDirs,
          step |-> IF st.turn + 1 > 0 /\ (st.turn + 1) % TurnsPerRing = 0
                   THEN st.step + StepIncrease ELSE st.step,
          turn |-> st.turn + 1]
    ELSE [st EXCEPT !.isOverlapping = FALSE, !.attempts = @ + 1]

\* one pass through the body of the while loop of findNonOverlappingPosition;
\* st holds the loop's variables
SpiralBody(ns, startPos, w, h, st) ==
    IF Collides(ns, st.pos, w, h)
    THEN [pos |-> Polar(startPos, st.step, st.angle),
          isOverlapping |-> TRUE,
          attempts |-> st.attempts + 1,
          angle |-> (st.angle + 2) % NumDirs,
          step |-> IF st.turn + 1 > 0 /\ (st.turn + 1) % TurnsPerRing = 0
                   THEN st.step + StepIncrease ELSE st.step,
          turn |-> st.turn + 1]
    ELSE [st EXCEPT !.isOverlapping = FALSE, !.attempts = @ + 1]

\* while (isOverlapping && attempts < maxAttempts)
SpiralGoesOn(st) == st.isOverlapping /\ st.attempts < maxAttempts

\* the loop, run ring by ring (TurnsPerRing passes at a time) to keep the
\* evaluation shallow; the passes are those of the single while loop
RECURSIVE SpiralRing(_, _, _, _, _, _)
SpiralRing(ns, startPos, w, h, st, passes) ==
    IF passes = 0 \/ ~SpiralGoesOn(st) THEN st
    ELSE SpiralRing(ns, startPos, w, h, SpiralBody(ns, startPos, w, h, st), passes - 1)

RECURSIVE SpiralLoop(_, _, _, _, _)
SpiralLoop(ns, startPos, w, h, st) ==
    IF ~SpiralGoesOn(st) THEN st
    ELSE SpiralLoop(ns, startPos, w, h, SpiralRing(ns, startPos, w, h, st, TurnsPerRing))

\* the final loop state of findNonOverlappingPosition; `angle` is the
\* direction Math.random() picked
FindPlacement(ns, startPos, w, h, angle) ==
    SpiralLoop(ns, startPos, w, h,
               [pos |-> startPos, isOverlapping |-> TRUE, attempts |-> 0,
                angle |-> angle, step |-> InitialStep, turn |-> 0])

findNonOverlappingPosition(ns, startPos, w, h, angle) ==
    FindPlacement(ns, startPos, w, h, angle).pos

\* ------------------------------------------------------------ node sizing
\* an estimate that looks at the line count only
EstimatedHeightOfLinesX100(data) ==
    4000
    + (IF data.weather THEN 7000 ELSE 0)
    + (IF data.stock THEN 9000 ELSE 0)
    + (IF data.reasoning THEN 6000 ELSE 0)
    + (IF data.text # <<>> THEN LineCount(data.text) * 2000 ELSE 0)

\* estimatedHeight before clamping, in hundredths (0.45 per character)
EstimatedHeightX100(data) ==
    4000
    + (IF data.weather THEN 7000 ELSE 0)
    + (IF data.stock THEN 9000 ELSE 0)
    + (IF data.reasoning THEN 6000 ELSE 0)
    + (IF data.text # <<>>
       THEN Max(LineCount(data.text) * 2000, Len(data.text) * 45)
       ELSE 0)

\* the returned size, in hundredths: the height is a fraction whenever the
\* character count decides it
estimateAiNodeSizeX100(data) ==
    [width |-> NODE_WIDTH * 100,
     height |-> Max(AI_NODE_BASE_HEIGHT * 100,
                    Min(MaxEstimatedHeight * 100, EstimatedHeightX100(data)))]

\* the size as the diagram of the model keeps it: whole units
estimateAiNodeSize(data) ==
    [width |-> NODE_WIDTH,
     height |-> estimateAiNodeSizeX100(data).height \div 100]

\* ------------------------------------------------------------ descendants
\* a traversal that follows an edge from either end
RECURSIVE VisitEdgesBothWays(_, _, _, _)
VisitEdgesBothWays(es, i, currentId, st) ==
    IF i > Len(es) THEN st
    ELSE LET other == IF es[i].source = currentId THEN es[i].target ELSE es[i].source
         IN  IF currentId \in {es[i].source, es[i].target} /\ other \notin st.visited
             THEN VisitEdgesBothWays(es, i + 1, currentId,
                                     [queue |-> Append(st.queue, other),
                                      visited |-> st.visited \cup {other},
                                      descendants |-> st.descendants \cup {other}])
             ELSE VisitEdgesBothWays(es, i + 1, currentId, st)

\* edges.forEach inside the while loop: st = [queue, visited, descendants]
RECURSIVE VisitEdges(_, _, _, _)
VisitEdges(es, i, currentId, st) ==
    IF i > Len(es) THEN st
    ELSE IF es[i].source = currentId /\ es[i].target \notin st.visited
    THEN VisitEdges(es, i + 1, currentId,
                    [queue |-> Append(st.queue, es[i].target),
                     visited |-> st.visited \cup {es[i].target},
                     descendants |-> st.descendants \cup {es[i].target}])
    ELSE VisitEdges(es, i + 1, currentId, st)

RECURSIVE DescendantsLoop(_, _)
DescendantsLoop(es, st) ==
    IF st.queue = <<>> THEN st.descendants
    ELSE DescendantsLoop(es, VisitEdges(es, 1, Head(st.queue),
                                        [st EXCEPT !.queue = Tail(st.queue)]))

getDescendants(startNodeId, es) ==
    DescendantsLoop(es, [queue |-> <<startNodeId>>,
                         visited |-> {startNodeId},
                         descendants |-> {}])

\* ------------------------------------------------------- sequence helpers
Range(s) == {s[i] : i \in 1..Len(s)}
Ids(ns) == {ns[i].id : i \in 1..Len(ns)}
\* Array.prototype.find on the node list, as an index (0 when absent)
FindIndex(ns, id) ==
    IF \E i \in 1..Len(ns) : ns[i].id = id
    THEN CHOOSE i \in 1..Len(ns) : ns[i].id = id /\ \A j \in 1..(i - 1) : ns[j].id # id
    ELSE 0
NodeById(ns, id) == ns[FindIndex(ns, id)]

\* ------------------------------------------------------------------ nodes
NoData == [text |-> <<>>, isLoading |-> FALSE, uri |-> "", language |-> "",
           weather |-> FALSE, stock |-> FALSE, reasoning |-> FALSE, sources |-> <<>>]

MkNode(id, type, data, position, width, height) ==
    [id |-> id, type |-> type, data |-> data, position |-> position,
     width |-> width, height |-> height]

\* every edge the program builds has the id `${source}-to-${target}`
Edge(source, target) ==
    [id |-> source \o "-to-" \o target, source |-> source, target |-> target]

StartText == <<"H", "i">>
StartNode ==
    MkNode("start-node", "system", [NoData EXCEPT !.text = StartText],
           [x |-> 0, y |-> 0], START_NODE_WIDTH, USER_NODE_HEIGHT)

\* ------------------------------------------------------------------ state
VARIABLES
    nodes,           \* useState<DiagramNode[]>
    edges,           \* useState<Edge[]>
    isLoading,       \* the busy flag handed to ChatInput
    focusedNodeId,   \* "" stands for null
    editingNodeId,   \* "" stands for null
    lastUserNodeId,  \* lastUserNodeId.current
    inflight,        \* the handleSend calls suspended at their await
    timers,          \* pending setTimeout(..., 100) focus callbacks
    now,             \* Date.now(), one tick per turn start / turn end
    exhausted,       \* ids of nodes whose latest placement ran out of attempts
    lastOp,          \* the handler that ran last, with its inputs
    place,           \* one findNonOverlappingPosition call, pass by pass
    view,            \* DiagramView: transform, gesture refs, animation
    svc              \* one streamGroundedResponse call, step by step

vars == <<nodes, edges, isLoading, focusedNodeId, editingNodeId,
          lastUserNodeId, inflight, timers, now, exhausted, lastOp, place, view, svc>>

appVars == <<nodes, edges, isLoading, focusedNodeId, editingNodeId,
             lastUserNodeId, inflight, timers, now, exhausted, lastOp>>

\* nodesRef.current and edgesRef.current as a handler run finds them: the
\* effects that assign them run after every commit and before the next
\* handler, so they hold the committed state; they are not assigned again
\* while the handler runs
nodesRef == nodes
edgesRef == edges

\* ----------------------------------------------------------------- inputs
\* directions Math.random() may pick for a new user node / for a spiral
SendAngles == {2}
\* draws[k] is the direction picked by the k-th findNonOverlappingPosition
\* call of a handler run
MaxPlaced == 4
SpiralDraws == {[k \in 1..MaxPlaced |-> 1], [k \in 1..MaxPlaced |-> 8]}
\* prompts typed into the chat input (before trim) and texts saved by an edit
Prompts == {<<"a">>, <<" ">>}
EditTexts == {<<"a">>, <<"b">>, <<" ">>, <<>>}
GhostId == "ghost-node"

NoResponse ==
    [responseText |-> <<>>, sources |-> <<>>, weather |-> FALSE, stock |-> FALSE,
     reasoning |-> FALSE, code |-> <<>>, position |-> <<>>, sourceNodeId |-> ""]

NoOp ==
    [kind |-> "init", ok |-> FALSE, node |-> "", user |-> "", ai |-> "",
     text |-> <<>>, response |-> NoResponse, created |-> {}, confirmed |-> TRUE,
     request |-> [nodes |-> <<>>, edges |-> <<>>]]

\* ------------------------------------------------------------ DiagramView
\* The numbers of the viewport (scale, translation, pointer positions) are
\* floats in the program; the model computes with exact fractions n/d in
\* lowest terms, d > 0.
RECURSIVE GCD(_, _)
GCD(a, b) == IF b = 0 THEN a ELSE GCD(b, a % b)

Q(n, d) ==
    LET sign == IF d < 0 THEN -1 ELSE 1
        g == GCD(Abs(n), Abs(d))
    IN  [n |-> (sign * n) \div g, d |-> (sign * d) \div g]
QInt(i) == [n |-> i, d |-> 1]
QAdd(a, b) == Q(a.n * b.d + b.n * a.d, a.d * b.d)
QSub(a, b) == Q(a.n * b.d - b.n * a.d, a.d * b.d)
QMul(a, b) == Q(a.n * b.n, a.d * b.d)
QDiv(a, b) == Q(a.n * b.d, a.d * b.n)
QLess(a, b) == a.n * b.d < b.n * a.d
QMin(a, b) == IF QLess(b, a) THEN b ELSE a
QMax(a, b) == IF QLess(a, b) THEN b ELSE a

\* Math.pow(q, k) for an integer k
RECURSIVE QPow(_, _)
QPow(q, k) ==
    IF k = 0 THEN QInt(1)
    ELSE IF k < 0 THEN QDiv(QInt(1), QPow(q, -k))
    ELSE QMul(q, QPow(q, k - 1))

\* Math.sqrt of a sum of squares; the touch points of the model are chosen
\* at whole distances
Sqrt(n) == CHOOSE r \in 0..2000 : r * r <= n /\ (r + 1) * (r + 1) > n

MinScale == Q(1, 10)
MaxScale == QInt(2)
FitMaxScale == Q(6, 5)
FitPadding == 150
FocusScale == QInt(1)

\* Math.max(0.1, Math.min(2, s))
ClampScale(s) == QMax(MinScale, QMin(MaxScale, s))

ZoomAboutUnclamped(prev, scaleFactor, px, py) ==
    LET newScale == ClampScale(QMul(prev.scale, scaleFactor))
        worldX == QDiv(QSub(px, prev.x), prev.scale)
        worldY == QDiv(QSub(py, prev.y), prev.scale)
    IN  [scale |-> newScale,
         x |-> QSub(px, QMul(worldX, QMul(prev.scale, scaleFactor))),
         y |-> QSub(py, QMul(worldY, QMul(prev.scale, scaleFactor)))]

\* the setTransform updater of handleWheel and of the pinch branch of
\* handleTouchMove: zoom by scaleFactor about the view point (px, py)
ZoomAbout(prev, scaleFactor, px, py) ==
    LET newScale == ClampScale(QMul(prev.scale, scaleFactor))
        worldX == QDiv(QSub(px, prev.x), prev.scale)
        worldY == QDiv(QSub(py, prev.y), prev.scale)
    IN  [scale |-> newScale,
         x |-> QSub(px, QMul(worldX, newScale)),
         y |-> QSub(py, QMul(worldY, newScale))]

\* animateToTransform; timerPending says the 700 ms timeout is scheduled
animateToTransform(v, targetTransform) ==
    [v EXCEPT !.isAnimating = TRUE, !.transform = targetTransform,
              !.timerPending = TRUE, !.moves = @ + 1]

focusOnNodeAtOrigin(v, ns, nodeId) ==
    IF FindIndex(ns, nodeId) = 0 THEN v
    ELSE LET node == NodeById(ns, nodeId)
             targetScale == FocusScale
             newX == QMul(QInt(-node.position.x), targetScale)
             newY == QMul(QInt(-node.position.y), targetScale)
         IN  animateToTransform(v, [scale |-> targetScale, x |-> newX, y |-> newY])

focusOnNode(v, ns, nodeId) ==
    IF FindIndex(ns, nodeId) = 0 THEN v
    ELSE LET node == NodeById(ns, nodeId)
             targetScale == FocusScale
             newX == QAdd(QMul(QInt(-node.position.x), targetScale), Q(v.clientWidth, 2))
             newY == QAdd(QMul(QInt(-node.position.y), targetScale), Q(v.clientHeight, 2))
         IN  animateToTransform(v, [scale |-> targetScale, x |-> newX, y |-> newY])

\* the bounding box of the nodes, doubled to stay in whole numbers
MinOf(S) == CHOOSE m \in S : \A e \in S : m <= e
MaxOf(S) == CHOOSE m \in S : \A e \in S : e <= m

zoomToFit(v, ns) ==
    IF Len(ns) = 0 THEN v
    ELSE
    LET minX2 == MinOf({2 * ns[i].position.x - ns[i].width : i \in 1..Len(ns)})
        maxX2 == MaxOf({2 * ns[i].position.x + ns[i].width : i \in 1..Len(ns)})
        minY2 == MinOf({2 * ns[i].position.y - ns[i].height : i \in 1..Len(ns)})
        maxY2 == MaxOf({2 * ns[i].position.y + ns[i].height : i \in 1..Len(ns)})
        contentWidth == Q(maxX2 - minX2, 2)
        contentHeight == Q(maxY2 - minY2, 2)
        padding == FitPadding
        scaleX == QDiv(QInt(v.clientWidth - padding * 2), contentWidth)
        scaleY == QDiv(QInt(v.clientHeight - padding * 2), contentHeight)
        newScale == QMin(QMin(scaleX, scaleY), FitMaxScale)
        contentCenterX == QAdd(Q(minX2, 2), QDiv(contentWidth, QInt(2)))
        contentCenterY == QAdd(Q(minY2, 2), QDiv(contentHeight, QInt(2)))
        newX == QAdd(QMul(QSub(QInt(0), contentCenterX), newScale), Q(v.clientWidth, 2))
        newY == QAdd(QMul(QSub(QInt(0), contentCenterY), newScale), Q(v.clientHeight, 2))
    IN  IF contentWidth.n <= 0 \/ contentHeight.n <= 0
        THEN focusOnNode(v, ns, ns[1].id)
        ELSE animateToTransform(v, [scale |-> newScale, x |-> newX, y |-> newY])

NoEvent ==
    [kind |-> "mount", touches |-> 0, px |-> QInt(0), py |-> QInt(0), factor |-> QInt(1),
     prev |-> [scale |-> QInt(1), x |-> QInt(0), y |-> QInt(0)]]

\* useState / useRef initial values of DiagramView in a view of the given
\* client size
NewView(clientWidth, clientHeight) ==
    [transform |-> [scale |-> QInt(1), x |-> QInt(0), y |-> QInt(0)],
     isInteracting |-> FALSE, isAnimating |-> FALSE, timerPending |-> FALSE,
     lastInteractionPosition |-> [x |-> 0, y |-> 0], lastPinchDist |-> 0,
     clientWidth |-> clientWidth, clientHeight |-> clientHeight,
     moves |-> 0, last |-> NoEvent]

\* the view once the mount effect has focused the start node and that
\* animation has ended
MountedView(clientWidth, clientHeight) ==
    [focusOnNode(NewView(clientWidth, clientHeight), <<StartNode>>, "start-node")
        EXCEPT !.isAnimating = FALSE, !.timerPending = FALSE, !.moves = 0]

\* ------------------------------------------------ streamGroundedResponse
\* Strings are sequences of tokens.  The tokens that matter to the code are
\* the marker "```json", the fence "```" and what JSON.parse accepts.
NoFields ==
    [position |-> <<>>, sourceNodeId |-> "", reasoning |-> FALSE,
     weather |-> FALSE, stock |-> FALSE, code |-> <<>>]
NoResult == [sources |-> <<>>, fields |-> NoFields, fullText |-> <<>>]

\* the state of a call: pc is "idle" (no call), "fetch" (awaiting fetch),
\* "read" (awaiting reader.read()) or "returned"; received, streamedAt,
\* errors, logged, via and deadlinePassed are not in the program: they record
\* the data records read, the record each onStream call came from, the
\* errors the collaborator reported, the console.error calls, the path the
\* call returned by, and whether 60 s have passed since the call
NoCall ==
    [pc |-> "idle", timerPending |-> FALSE, aborted |-> FALSE, deadlinePassed |-> FALSE,
     fullText |-> <<>>, jsonBlock |-> <<>>, inJsonBlock |-> FALSE,
     groundingMetadata |-> <<>>, streamed |-> <<>>, streamedAt |-> <<>>,
     received |-> <<>>, errors |-> <<>>, logged |-> 0, via |-> "", caught |-> "",
           result |-> NoResult]


NoPlacement ==
    [pc |-> "idle", ns |-> <<>>, startPos |-> [x |-> 0, y |-> 0], w |-> 0, h |-> 0,
     st |-> [pos |-> [x |-> 0, y |-> 0], isOverlapping |-> TRUE, attempts |-> 0,
             angle |-> 0, step |-> InitialStep, turn |-> 0]]

InitApp ==
    /\ nodes = <<StartNode>>
    /\ edges = <<>>
    /\ isLoading = FALSE
    /\ focusedNodeId = ""
    /\ editingNodeId = ""
    /\ lastUserNodeId = "start-node"
    /\ inflight = {}
    /\ timers = {}
    /\ now = 0
    /\ exhausted = {}
    /\ lastOp = NoOp

Init == InitApp /\ place = NoPlacement /\ view = MountedView(800, 600) /\ svc = NoCall

\* ------------------------------------------------------------- handleSend
\* The synchronous part of handleSend, up to its await.  qNodes and qEdges
\* are the node and edge state the calling handler has queued so far.
\* setEdges is a functional update and extends qEdges; setNodes is given a
\* list built from nodesRef.current, which replaces qNodes.  anchor is
\* lastUserNodeId.current.
MAX_CONTEXT_NODES == 15

\* Array.prototype.slice(-n): the last n elements
SliceLast(seq, n) ==
    IF Len(seq) <= n THEN seq ELSE SubSeq(seq, Len(seq) - n + 1, Len(seq))

\* recentNodes and recentEdges, the context getGroundedResponse is called with
RequestContext(nodesWithUser, es) ==
    LET recentNodes == SliceLast(nodesWithUser, MAX_CONTEXT_NODES)
        recentNodeIds == Ids(recentNodes)
        recentEdges == SelectSeq(es, LAMBDA e : e.source \in recentNodeIds
                                                \/ e.target \in recentNodeIds)
    IN  [nodes |-> recentNodes, edges |-> recentEdges]

HandleSend(op, prompt, anchor, qNodes, qEdges, sendAngle, draws) ==
    LET currentNodes == nodesRef
        sourceNode == IF FindIndex(currentNodes, anchor) # 0
                      THEN NodeById(currentNodes, anchor)
                      ELSE currentNodes[1]
        userNodeId == "user-" \o ToString(now)
        aiNodeId == "ai-" \o ToString(now)
        initialUserNodePos == Polar(sourceNode.position, SendDistance, sendAngle)
        userPlacement == FindPlacement(currentNodes, initialUserNodePos,
                                       NODE_WIDTH, USER_NODE_HEIGHT, draws[1])
        userNode == MkNode(userNodeId, "user", [NoData EXCEPT !.text = prompt],
                           userPlacement.pos, NODE_WIDTH, USER_NODE_HEIGHT)
        nodesWithUser == Append(currentNodes, userNode)
        initialThinkingPos == [x |-> userNode.position.x,
                               y |-> userNode.position.y + ThinkingOffsetY]
        thinkingPlacement == FindPlacement(nodesWithUser, initialThinkingPos,
                                           NODE_WIDTH, AI_NODE_BASE_HEIGHT, draws[2])
        thinkingNode == MkNode(aiNodeId, "ai", [NoData EXCEPT !.isLoading = TRUE],
                               thinkingPlacement.pos, NODE_WIDTH, AI_NODE_BASE_HEIGHT)
        userEdge == Edge(sourceNode.id, userNodeId)
        thinkingEdge == Edge(userNodeId, aiNodeId)
        newNodes == Append(nodesWithUser, thinkingNode)
        newEdges == qEdges \o <<userEdge, thinkingEdge>>
    IN  /\ now < MaxNow
        /\ isLoading' = TRUE
        /\ focusedNodeId' = ""
        /\ editingNodeId' = ""
        /\ nodes' = newNodes
        /\ edges' = newEdges
        /\ lastUserNodeId' = userNodeId
        /\ timers' = timers \cup {[id |-> userNodeId, setFocused |-> FALSE]}
        /\ inflight' = inflight \cup
              {[prompt |-> prompt, userNodeId |-> userNodeId, aiNodeId |-> aiNodeId,
                userPosition |-> userNode.position]}
        /\ now' = now + 1
        /\ exhausted' = exhausted
              \cup (IF userPlacement.isOverlapping THEN {userNodeId} ELSE {})
              \cup (IF thinkingPlacement.isOverlapping THEN {aiNodeId} ELSE {})
        /\ lastOp' = [op EXCEPT !.ok = TRUE, !.user = userNodeId, !.ai = aiNodeId,
                                !.text = prompt, !.created = {userNodeId, aiNodeId},
                                !.request = RequestContext(nodesWithUser, edgesRef)]

SubmitFromRoot(prompt, sendAngle, draws) ==
    /\ Trim(prompt) # <<>>
    /\ ~isLoading
    /\ HandleSend([NoOp EXCEPT !.kind = "send"], Trim(prompt), "start-node",
                  nodes, edges, sendAngle, draws)

\* ChatInput.handleSubmit
Submit(prompt, sendAngle, draws) ==
    /\ Trim(prompt) # <<>>
    /\ ~isLoading
    /\ HandleSend([NoOp EXCEPT !.kind = "send"], Trim(prompt), lastUserNodeId,
                  nodes, edges, sendAngle, draws)

\* the Regenerate button is rendered on AI nodes that are not loading
CanRegenerate(nodeId) ==
    \E i \in 1..Len(nodes) :
        nodes[i].id = nodeId /\ nodes[i].type = "ai" /\ ~nodes[i].data.isLoading

handleRegenerate(nodeId, confirmed, sendAngle, draws) ==
    LET op == [NoOp EXCEPT !.kind = "regenerate", !.node = nodeId]
        currentNodes == nodesRef
        currentEdges == edgesRef
        parentEdges == SelectSeq(currentEdges, LAMBDA e : e.target = nodeId)
        parentId == parentEdges[1].source
        parentNode == NodeById(currentNodes, parentId)
        descendants == getDescendants(nodeId, currentEdges) \cup {nodeId}
        qNodes == SelectSeq(currentNodes, LAMBDA n : n.id \notin descendants)
        qEdges == SelectSeq(currentEdges,
                            LAMBDA e : e.source \notin descendants /\ e.target \notin descendants)
    IN  /\ CanRegenerate(nodeId)
        /\ confirmed
        /\ parentEdges # <<>>
        /\ FindIndex(currentNodes, parentId) # 0
        /\ parentNode.type = "user"
        /\ HandleSend(op, parentNode.data.text, parentNode.id, qNodes, qEdges,
                      sendAngle, draws)

\* the Edit button is rendered on user nodes; nodeId may also name a node
\* that is gone
CanEdit(nodeId) ==
    \/ nodeId = GhostId
    \/ \E i \in 1..Len(nodes) : nodes[i].id = nodeId /\ nodes[i].type = "user"

handleSaveEdit(nodeId, newText, sendAngle, draws) ==
    LET op == [NoOp EXCEPT !.kind = "saveEdit", !.node = nodeId, !.text = newText]
        currentNodes == nodesRef
        currentEdges == edgesRef
        descendants == getDescendants(nodeId, currentEdges)
        edited == [i \in 1..Len(currentNodes) |->
                      IF currentNodes[i].id = nodeId
                      THEN [currentNodes[i] EXCEPT !.data.text = newText]
                      ELSE currentNodes[i]]
        qNodes == SelectSeq(edited, LAMBDA n : n.id \notin descendants)
        qEdges == SelectSeq(currentEdges,
                            LAMBDA e : e.source \notin descendants /\ e.target \notin descendants)
    IN  /\ CanEdit(nodeId)
        /\ FindIndex(currentNodes, nodeId) # 0
        /\ Trim(newText) # <<>>
        /\ newText # NodeById(currentNodes, nodeId).data.text
        /\ HandleSend(op, newText, nodeId, qNodes, qEdges, sendAngle, draws)

\* ------------------------------------------------- the collaborator's reply
\* existingSourcesMap as first filled from nodesRef.current: Map.set keeps the
\* last node seen for a uri ("" when the uri has no source node)
ExistingSourceId(ns, uri) ==
    LET hits == {i \in 1..Len(ns) :
                    ns[i].type = "source" /\ ns[i].data.uri # "" /\ ns[i].data.uri = uri}
    IN  IF hits = {} THEN ""
        ELSE ns[CHOOSE i \in hits : \A j \in hits : j <= i].id

\* newSourceInfos: the first citation of every uri that has no source node
NewSourceInfosIgnoringNodes(ns, sources) ==
    LET keep == {i \in 1..Len(sources) :
                    \A j \in 1..(i - 1) : sources[j].uri # sources[i].uri}
    IN  [k \in 1..Cardinality(keep) |->
            sources[CHOOSE i \in keep : Cardinality({j \in keep : j <= i}) = k]]

NewSourceInfos(ns, sources) ==
    LET keep == {i \in 1..Len(sources) :
                    /\ ExistingSourceId(ns, sources[i].uri) = ""
                    /\ \A j \in 1..(i - 1) : sources[j].uri # sources[i].uri}
        pick[i \in 0..Len(sources)] ==
            IF i = 0 THEN <<>>
            ELSE IF i \in keep THEN Append(pick[i - 1], sources[i]) ELSE pick[i - 1]
    IN  pick[Len(sources)]

\* existingSourcesMap.get(uri) after the placeholders were added
SourcesMapGet(ns, sources, uri) ==
    IF ExistingSourceId(ns, uri) # "" THEN ExistingSourceId(ns, uri)
    ELSE IF \E i \in 1..Len(sources) : sources[i].uri = uri THEN "new-source-" \o uri
    ELSE ""

\* nodesToPlaceInfo: the AI node, the new source nodes, the code node
NodesToPlaceInfo(turn, response, ns) ==
    LET finalAiData == [NoData EXCEPT
                           !.text = response.responseText,
                           !.weather = response.weather,
                           !.stock = response.stock,
                           !.reasoning = response.reasoning,
                           !.isLoading = FALSE,
                           !.sources = response.sources]
        estimatedSize == estimateAiNodeSize(finalAiData)
        aiStartPos == IF response.position # <<>> THEN response.position[1]
                      ELSE [x |-> turn.userPosition.x,
                            y |-> turn.userPosition.y + AiFallbackOffsetY]
        newSourceInfos == NewSourceInfos(ns, response.sources)
        count == Len(newSourceInfos)
        aiInfo == [id |-> turn.aiNodeId, type |-> "ai", data |-> finalAiData,
                   width |-> estimatedSize.width, height |-> estimatedSize.height,
                   startPos |-> aiStartPos]
        sourceInfo(k) ==
            \* index = k - 1; (index - (count - 1) / 2) * (NODE_WIDTH + 80)
            [id |-> "source-" \o ToString(now) \o "-" \o ToString(k - 1),
             type |-> "source",
             data |-> [NoData EXCEPT !.text = newSourceInfos[k].title,
                                     !.uri = newSourceInfos[k].uri],
             width |-> NODE_WIDTH, height |-> SOURCE_NODE_HEIGHT,
             startPos |-> [x |-> aiStartPos.x
                                 + (((2 * (k - 1) - (count - 1)) * (NODE_WIDTH + 80)) \div 2),
                           y |-> aiStartPos.y + AttachedOffsetY]]
        codeInfo ==
            [id |-> "code-" \o ToString(now), type |-> "code",
             data |-> [NoData EXCEPT !.text = response.code[1].content,
                                     !.language = response.code[1].language],
             width |-> CODE_NODE_WIDTH, height |-> CODE_NODE_HEIGHT,
             startPos |-> [x |-> aiStartPos.x, y |-> aiStartPos.y + AttachedOffsetY]]
    IN  <<aiInfo>> \o [k \in 1..count |-> sourceInfo(k)]
        \o (IF response.code # <<>> THEN <<codeInfo>> ELSE <<>>)

\* nodesToPlaceInfo.forEach: every node is placed against the nodes of the
\* diagram (without the provisional AI node) and the nodes placed before it;
\* angles[k] is the direction Math.random() picks in the k-th call
PlaceAll(infos, collisionCheckNodes, angles) ==
    LET step[k \in 0..Len(infos)] ==
            IF k = 0 THEN [check |-> collisionCheckNodes, placed |-> <<>>, out |-> {}]
            ELSE LET prev == step[k - 1]
                     info == infos[k]
                     r == FindPlacement(prev.check, info.startPos, info.width,
                                        info.height, angles[k])
                     finalNode == MkNode(info.id, info.type, info.data, r.pos,
                                         info.width, info.height)
                 IN  [check |-> Append(prev.check, finalNode),
                      placed |-> Append(prev.placed, finalNode),
                      out |-> IF r.isOverlapping THEN prev.out \cup {info.id} ELSE prev.out]
    IN  step[Len(infos)]

\* newEdges: one edge per cited source, then the edge to the code node
NewEdges(turn, response, ns, placed) ==
    LET sourceEdge(i) == Edge(turn.aiNodeId,
                              SourcesMapGet(ns, response.sources, response.sources[i].uri))
        codeNodes == SelectSeq(placed, LAMBDA n : n.type = "code")
    IN  [i \in 1..Len(response.sources) |-> sourceEdge(i)]
        \o (IF codeNodes # <<>> THEN <<Edge(turn.aiNodeId, codeNodes[1].id)>> ELSE <<>>)

\* finalEdges.filter((edge, index, self) => index === self.findIndex(...))
DedupEdgesOff(es) == es

DedupEdges(es) ==
    LET first == {i \in 1..Len(es) :
                    \A j \in 1..(i - 1) :
                        ~(es[j].source = es[i].source /\ es[j].target = es[i].target)}
        pick[i \in 0..Len(es)] ==
            IF i = 0 THEN <<>>
            ELSE IF i \in first THEN Append(pick[i - 1], es[i]) ELSE pick[i - 1]
    IN  pick[Len(es)]

\* the setEdges updater of the success path; ns is nodesRef.current
FinalEdgesKeepingTemporary(prev, turn, response, ns, newEdges) ==
    LET connectionTargetId == response.sourceNodeId
        connectionSourceId ==
            IF connectionTargetId # "" /\ connectionTargetId \in Ids(ns)
            THEN connectionTargetId ELSE turn.userNodeId
    IN  DedupEdges((prev \o newEdges) \o <<Edge(connectionSourceId, turn.aiNodeId)>>)

FinalEdges(prev, turn, response, ns, newEdges) ==
    LET connectionTargetId == response.sourceNodeId
        connectionSourceId ==
            IF connectionTargetId # "" /\ connectionTargetId \in Ids(ns)
            THEN connectionTargetId ELSE turn.userNodeId
        edgesWithoutTemporary == SelectSeq(prev, LAMBDA e : e.target # turn.aiNodeId)
        finalEdges == (edgesWithoutTemporary \o newEdges)
                      \o <<Edge(connectionSourceId, turn.aiNodeId)>>
    IN  DedupEdges(finalEdges)

ErrorPrefix == <<"Sorry, an error occurred: ">>
EmptyResponseMessage == <<"AI returned an empty response.">>

\* the catch block followed by finally
FailedDroppingNode(op, turn, errorMessage) ==
    /\ now < MaxNow
    /\ nodes' = SelectSeq(nodes, LAMBDA n : n.id # turn.aiNodeId)
    /\ isLoading' = FALSE
    /\ inflight' = inflight \ {turn}
    /\ now' = now + 1
    /\ lastOp' = [op EXCEPT !.kind = "fail", !.ok = TRUE, !.text = errorMessage]
    /\ UNCHANGED <<edges, focusedNodeId, editingNodeId, lastUserNodeId,
                   timers, exhausted>>

Failed(op, turn, errorMessage) ==
    LET newNodes == [i \in 1..Len(nodes) |->
                        IF nodes[i].id = turn.aiNodeId
                        THEN [nodes[i] EXCEPT !.data.text = ErrorPrefix \o errorMessage,
                                              !.data.isLoading = FALSE]
                        ELSE nodes[i]]
    IN  /\ now < MaxNow
        /\ nodes' = newNodes
        /\ isLoading' = FALSE
        /\ inflight' = inflight \ {turn}
        /\ now' = now + 1
        /\ lastOp' = [op EXCEPT !.kind = "fail", !.ok = TRUE, !.text = errorMessage]
        /\ UNCHANGED <<edges, focusedNodeId, editingNodeId, lastUserNodeId,
                       timers, exhausted>>

SucceededKeepingOnlyPlaced(op, turn, response, draws) ==
    LET infos == NodesToPlaceInfo(turn, response, nodesRef)
        collisionCheckNodes == SelectSeq(nodesRef, LAMBDA n : n.id # turn.aiNodeId)
        placement == PlaceAll(infos, collisionCheckNodes, draws)
        newlyPlacedNodes == placement.placed
        newEdges == NewEdges(turn, response, nodesRef, newlyPlacedNodes)
    IN  /\ now < MaxNow
        /\ nodes' = newlyPlacedNodes
        /\ edges' = FinalEdges(edges, turn, response, nodesRef, newEdges)
        /\ isLoading' = FALSE
        /\ inflight' = inflight \ {turn}
        /\ timers' = timers \cup {[id |-> turn.aiNodeId, setFocused |-> TRUE]}
        /\ now' = now + 1
        /\ exhausted' = (exhausted \ Ids(newlyPlacedNodes)) \cup placement.out
        /\ lastOp' = [op EXCEPT !.kind = "respond", !.ok = TRUE,
                                !.created = Ids(newlyPlacedNodes) \ {turn.aiNodeId}]
        /\ UNCHANGED <<focusedNodeId, editingNodeId, lastUserNodeId>>

\* the try block after the await, followed by finally
Succeeded(op, turn, response, draws) ==
    LET infos == NodesToPlaceInfo(turn, response, nodesRef)
        collisionCheckNodes == SelectSeq(nodesRef, LAMBDA n : n.id # turn.aiNodeId)
        placement == PlaceAll(infos, collisionCheckNodes, draws)
        newlyPlacedNodes == placement.placed
        newEdges == NewEdges(turn, response, nodesRef, newlyPlacedNodes)
        newNodes == SelectSeq(nodes, LAMBDA n : n.id # turn.aiNodeId) \o newlyPlacedNodes
        finalEdges == FinalEdges(edges, turn, response, nodesRef, newEdges)
    IN  /\ now < MaxNow
        /\ nodes' = newNodes
        /\ edges' = finalEdges
        /\ isLoading' = FALSE
        /\ inflight' = inflight \ {turn}
        /\ timers' = timers \cup {[id |-> turn.aiNodeId, setFocused |-> TRUE]}
        /\ now' = now + 1
        /\ exhausted' = (exhausted \ Ids(newlyPlacedNodes)) \cup placement.out
        /\ lastOp' = [op EXCEPT !.kind = "respond", !.ok = TRUE,
                                !.created = Ids(newlyPlacedNodes) \ {turn.aiNodeId}]
        /\ UNCHANGED <<focusedNodeId, editingNodeId, lastUserNodeId>>

\* getGroundedResponse resolves
Respond(turn, response, draws) ==
    LET op == [NoOp EXCEPT !.user = turn.userNodeId, !.ai = turn.aiNodeId,
                           !.response = response]
    IN  /\ turn \in inflight
        /\ IF response.responseText = <<>>
           THEN Failed(op, turn, EmptyResponseMessage)
           ELSE Succeeded(op, turn, response, draws)

\* getGroundedResponse rejects
Reject(turn, errorMessage) ==
    /\ turn \in inflight
    /\ Failed([NoOp EXCEPT !.user = turn.userNodeId, !.ai = turn.aiNodeId], turn, errorMessage)

MeasuredNodesWidthOnly(prevNodes, nodeId, width, height) ==
    LET i == FindIndex(prevNodes, nodeId)
    IN  IF i # 0 /\ prevNodes[i].width # width
        THEN [k \in 1..Len(prevNodes) |->
                 IF prevNodes[k].id = nodeId
                 THEN [prevNodes[k] EXCEPT !.width = width, !.height = height]
                 ELSE prevNodes[k]]
        ELSE prevNodes

\* the setNodes updater of handleNodeMeasured
MeasuredNodes(prevNodes, nodeId, width, height) ==
    LET i == FindIndex(prevNodes, nodeId)
    IN  IF i # 0 /\ (prevNodes[i].width # width \/ prevNodes[i].height # height)
        THEN [k \in 1..Len(prevNodes) |->
                 IF prevNodes[k].id = nodeId
                 THEN [prevNodes[k] EXCEPT !.width = width, !.height = height]
                 ELSE prevNodes[k]]
        ELSE prevNodes

\* handleNodeMeasured, when the updater returns a new list (React bails out
\* of the update otherwise)
handleNodeMeasured(nodeId, width, height) ==
    LET newNodes == MeasuredNodes(nodes, nodeId, width, height)
        changes == newNodes # nodes
    IN  /\ changes
        /\ nodes' = newNodes
        /\ lastOp' = [NoOp EXCEPT !.kind = "measure", !.node = nodeId, !.ok = TRUE]
        /\ UNCHANGED <<edges, isLoading, focusedNodeId, editingNodeId,
                       lastUserNodeId, inflight, timers, now, exhausted>>

\* ------------------------------------------------- inputs of the reply
Source1 == [uri |-> "u1", title |-> <<"s">>]
Source2 == [uri |-> "u2", title |-> <<"t">>]
SourceLists == {<<>>, <<Source1>>, <<Source1, Source1>>, <<Source1, Source2>>}
SomeCode == [language |-> "ts", content |-> <<"c">>]
SomePosition == [x |-> 0, y |-> 0]
PlainReply == [NoResponse EXCEPT !.responseText = <<"h", "i">>]
RichReply == [PlainReply EXCEPT !.code = <<SomeCode>>, !.position = <<SomePosition>>,
                                !.weather = TRUE, !.sourceNodeId = "start-node"]
ErrorMessages == {<<"Request timed out.">>}

Responses ==
    {NoResponse}
    \cup {[PlainReply EXCEPT !.sources = sl] : sl \in SourceLists}
    \cup {[PlainReply EXCEPT !.sourceNodeId = GhostId]}
    \cup {[RichReply EXCEPT !.sources = <<Source1>>]}

TallReplyHeight == MaxEstimatedHeight + 100

\* the rendered height of a node: user, source, code and system nodes and
\* error notices render at the min-height their style asks for, a finished
\* reply can come out taller than its estimate
RenderedHeights(n) ==
    IF /\ n.type = "ai" /\ ~n.data.isLoading /\ n.height < TallReplyHeight
       /\ n.data.text # <<>> /\ Head(n.data.text) # Head(ErrorPrefix)
    THEN {n.height, TallReplyHeight}
    ELSE {n.height}

\* the model's clock still runs (the guard every turn start and turn end
\* has, stated before the inputs are drawn)
ClockRuns == now < MaxNow

Next ==
    \/ /\ ClockRuns /\ ~isLoading
       /\ \E p \in Prompts, s \in SendAngles, d \in SpiralDraws : Submit(p, s, d)
       /\ UNCHANGED <<place, view, svc>>
    \/ /\ ClockRuns
       /\ \E id \in {i \in Ids(nodes) : CanRegenerate(i)} :
             \E c \in BOOLEAN, s \in SendAngles, d \in SpiralDraws :
                 handleRegenerate(id, c, s, d)
       /\ UNCHANGED <<place, view, svc>>
    \/ /\ ClockRuns
       /\ \E id \in {i \in Ids(nodes) \cup {GhostId} : CanEdit(i)} :
             \E t \in EditTexts, s \in SendAngles, d \in SpiralDraws :
                 handleSaveEdit(id, t, s, d)
       /\ UNCHANGED <<place, view, svc>>
    \/ /\ ClockRuns
       /\ \E turn \in inflight, r \in Responses, d \in SpiralDraws : Respond(turn, r, d)
       /\ UNCHANGED <<place, view, svc>>
    \/ /\ ClockRuns
       /\ \E turn \in inflight, m \in ErrorMessages : Reject(turn, m)
       /\ UNCHANGED <<place, view, svc>>
    \/ /\ \E i \in 1..Len(nodes) : \E h \in RenderedHeights(nodes[i]) \ {nodes[i].height} :
             handleNodeMeasured(nodes[i].id, nodes[i].width, h)
       /\ UNCHANGED <<place, view, svc>>

Spec == Init /\ [][Next]_vars

\* --------------------------------------- the handlers' early returns as steps
\* handleRegenerate when it returns before changing anything: the
\* confirmation was declined, the node has no inbound edge, or the source of
\* its first inbound edge is missing or is not a user node
handleRegenerateReturnsMovingAnchor(nodeId, confirmed) ==
    LET parentEdges == SelectSeq(edgesRef, LAMBDA e : e.target = nodeId)
        parentId == parentEdges[1].source
    IN  /\ CanRegenerate(nodeId)
        /\ IF ~confirmed \/ parentEdges = <<>> THEN TRUE
           ELSE IF FindIndex(nodesRef, parentId) = 0 THEN TRUE
           ELSE NodeById(nodesRef, parentId).type # "user"
        /\ lastUserNodeId' = IF parentEdges = <<>> THEN nodeId ELSE parentId
        /\ lastOp' = [NoOp EXCEPT !.kind = "regenerate", !.node = nodeId,
                                  !.confirmed = confirmed]
        /\ UNCHANGED <<nodes, edges, isLoading, focusedNodeId, editingNodeId,
                       inflight, timers, now, exhausted>>

handleRegenerateReturns(nodeId, confirmed) ==
    LET currentNodes == nodesRef
        currentEdges == edgesRef
        parentEdges == SelectSeq(currentEdges, LAMBDA e : e.target = nodeId)
        parentId == parentEdges[1].source
    IN  /\ CanRegenerate(nodeId)
        /\ IF ~confirmed \/ parentEdges = <<>> THEN TRUE
           ELSE IF FindIndex(currentNodes, parentId) = 0 THEN TRUE
           ELSE NodeById(currentNodes, parentId).type # "user"
        /\ lastOp' = [NoOp EXCEPT !.kind = "regenerate", !.node = nodeId,
                                  !.confirmed = confirmed]
        /\ UNCHANGED <<nodes, edges, isLoading, focusedNodeId, editingNodeId,
                       lastUserNodeId, inflight, timers, now, exhausted>>

\* handleSaveEdit when it returns after setEditingNodeId(null): the node is
\* not found, the new text trims to nothing, or it is the node's text
handleSaveEditReturns(nodeId, newText) ==
    LET currentNodes == nodesRef
    IN  /\ CanEdit(nodeId)
        /\ IF FindIndex(currentNodes, nodeId) = 0 THEN TRUE
           ELSE IF Trim(newText) = <<>> THEN TRUE
           ELSE newText = NodeById(currentNodes, nodeId).data.text
        /\ editingNodeId' = ""
        /\ lastOp' = [NoOp EXCEPT !.kind = "saveEdit", !.node = nodeId, !.text = newText]
        /\ UNCHANGED <<nodes, edges, isLoading, focusedNodeId,
                       lastUserNodeId, inflight, timers, now, exhausted>>

EarlyClockRuns == now < MaxEarlyNow

NextEarly ==
    \/ /\ EarlyClockRuns /\ ~isLoading
       /\ \E p \in Prompts, s \in SendAngles, d \in SpiralDraws : Submit(p, s, d)
       /\ UNCHANGED <<place, view, svc>>
    \/ /\ EarlyClockRuns
       /\ \E id \in {i \in Ids(nodes) : CanRegenerate(i)} :
             \E s \in SendAngles, d \in SpiralDraws : handleRegenerate(id, TRUE, s, d)
       /\ UNCHANGED <<place, view, svc>>
    \/ /\ \E id \in {i \in Ids(nodes) : CanRegenerate(i)} :
             \E c \in BOOLEAN : handleRegenerateReturns(id, c)
       /\ UNCHANGED <<place, view, svc>>
    \/ /\ EarlyClockRuns
       /\ \E id \in {i \in Ids(nodes) : CanEdit(i)} :
             \E t \in EditTexts, s \in SendAngles, d \in SpiralDraws :
                 handleSaveEdit(id, t, s, d)
       /\ UNCHANGED <<place, view, svc>>
    \/ /\ \E id \in {i \in Ids(nodes) \cup {GhostId} : CanEdit(i)} :
             \E t \in EditTexts : handleSaveEditReturns(id, t)
       /\ UNCHANGED <<place, view, svc>>
    \/ /\ EarlyClockRuns
       /\ \E turn \in inflight, r \in Responses, d \in SpiralDraws : Respond(turn, r, d)
       /\ UNCHANGED <<place, view, svc>>
    \/ /\ EarlyClockRuns
       /\ \E turn \in inflight, m \in ErrorMessages : Reject(turn, m)
       /\ UNCHANGED <<place, view, svc>>

SpecEarly == Init /\ [][NextEarly]_vars

\* ------------------------------------------- the placement search by itself
\* SpecPlace runs one findNonOverlappingPosition call pass by pass on inputs
\* drawn from the sets below.
PlacedUser ==
    MkNode("user-0", "user", [NoData EXCEPT !.text = <<"a">>],
           [x |-> 373, y |-> 469], NODE_WIDTH, USER_NODE_HEIGHT)
PlacedReply ==
    MkNode("ai-0", "ai", [NoData EXCEPT !.text = <<"h", "i">>],
           [x |-> 373, y |-> 1069], NODE_WIDTH, AI_NODE_BASE_HEIGHT)
\* a row of very tall replies, close enough to each other that no probe of
\* the search fits between or around them
TallReplies ==
    [k \in 1..14 |->
        MkNode("ai-" \o ToString(k), "ai", [NoData EXCEPT !.text = <<"h", "i">>],
               [x |-> 800 * k - 5000, y |-> 0], NODE_WIDTH, 12000)]
PlaceLayouts ==
    {<<>>, <<StartNode>>, <<StartNode, PlacedUser>>, <<StartNode, PlacedUser, PlacedReply>>,
     TallReplies}
PlaceStarts ==
    {[x |-> 0, y |-> 0], [x |-> 373, y |-> 469], [x |-> 373, y |-> 819],
     [x |-> 600, y |-> 0], [x |-> 10, y |-> 700]}
PlaceSizes ==
    {[w |-> NODE_WIDTH, h |-> USER_NODE_HEIGHT], [w |-> NODE_WIDTH, h |-> AI_NODE_BASE_HEIGHT],
     [w |-> CODE_NODE_WIDTH, h |-> CODE_NODE_HEIGHT], [w |-> NODE_WIDTH, h |-> MaxEstimatedHeight]}
PlaceAngles == 0..(NumDirs - 1)

InitPlace ==
    /\ InitApp
    /\ view = MountedView(800, 600)
    /\ svc = NoCall
    /\ \E ns \in PlaceLayouts, startPos \in PlaceStarts, size \in PlaceSizes, a \in PlaceAngles :
          place = [pc |-> "loop", ns |-> ns, startPos |-> startPos, w |-> size.w, h |-> size.h,
                   st |-> [pos |-> startPos, isOverlapping |-> TRUE, attempts |-> 0,
                           angle |-> a, step |-> InitialStep, turn |-> 0]]

\* one pass of the while loop
SpiralPass ==
    /\ place.pc = "loop"
    /\ SpiralGoesOn(place.st)
    /\ place' = [place EXCEPT
                    !.st = SpiralBody(place.ns, place.startPos, place.w, place.h, place.st)]
    /\ UNCHANGED <<appVars, view, svc>>

\* return currentPos
SpiralReturn ==
    /\ place.pc = "loop"
    /\ ~SpiralGoesOn(place.st)
    /\ place' = [place EXCEPT !.pc = "done"]
    /\ UNCHANGED <<appVars, view, svc>>

NextPlace == SpiralPass \/ SpiralReturn

SpecPlace == InitPlace /\ [][NextPlace]_vars

\* the loop is synchronous code: a pass that can run does run
SpecPlaceFair == SpecPlace /\ WF_vars(NextPlace)

\* ----------------------------------------------------- the viewport by itself
\* SpecView runs the event handlers of DiagramView, and the App handlers
\* that move the camera, over a diagram of two finished turns.
SecondUser ==
    MkNode("user-2", "user", [NoData EXCEPT !.text = <<"b">>],
           [x |-> 973, y |-> 469], NODE_WIDTH, USER_NODE_HEIGHT)
SecondReply ==
    MkNode("ai-2", "ai", [NoData EXCEPT !.text = <<"h", "i">>],
           [x |-> 973, y |-> 1069], NODE_WIDTH, AI_NODE_BASE_HEIGHT)
ViewNodes == <<StartNode, PlacedUser, PlacedReply, SecondUser, SecondReply>>
ViewEdges ==
    <<Edge("start-node", "user-0"), Edge("user-0", "ai-0"),
      Edge("user-0", "user-2"), Edge("user-2", "ai-2")>>
ViewSizes == {[w |-> 800, h |-> 600], [w |-> 375, h |-> 667]}
ViewRect == [left |-> 0, top |-> 0]
MousePoints == {[x |-> 100, y |-> 200], [x |-> 130, y |-> 180]}
WheelEvents ==
    {[clientX |-> 100, clientY |-> 200, deltaY |-> 500, ctrlKey |-> FALSE],
     [clientX |-> 100, clientY |-> 200, deltaY |-> -1500, ctrlKey |-> FALSE],
     [clientX |-> 130, clientY |-> 180, deltaY |-> 0, ctrlKey |-> TRUE]}
OneFinger == {<<p>> : p \in MousePoints}
TwoFingers ==
    {<<[x |-> 250, y |-> 300], [x |-> 550, y |-> 700]>>,
     <<[x |-> 325, y |-> 400], [x |-> 475, y |-> 600]>>}

InitView ==
    /\ nodes = ViewNodes
    /\ edges = ViewEdges
    /\ isLoading = FALSE
    /\ focusedNodeId = ""
    /\ editingNodeId = ""
    /\ lastUserNodeId = "user-2"
    /\ inflight = {}
    /\ timers = {}
    /\ now = 4
    /\ exhausted = {}
    /\ lastOp = NoOp
    /\ place = NoPlacement
    /\ svc = NoCall
    /\ \E size \in ViewSizes : view = MountedView(size.w, size.h)

Event(kind, touches, px, py, factor) ==
    [kind |-> kind, touches |-> touches, px |-> px, py |-> py, factor |-> factor,
     prev |-> view.transform]

handleWheel(e) ==
    LET scaleFactor == IF e.ctrlKey THEN QPow(Q(199, 200), e.deltaY)
                       ELSE QSub(QInt(1), Q(e.deltaY, 1000))
        mouseX == QInt(e.clientX - ViewRect.left)
        mouseY == QInt(e.clientY - ViewRect.top)
    IN  /\ view' = [view EXCEPT
                       !.isAnimating = FALSE,
                       !.timerPending = FALSE,
                       !.transform = ZoomAbout(view.transform, scaleFactor, mouseX, mouseY),
                       !.moves = @ + 1,
                       !.last = Event("wheel", 0, mouseX, mouseY, scaleFactor)]
        /\ UNCHANGED <<appVars, place, svc>>

\* handleInteractionStart past its early return
handleInteractionStart(v, x, y) ==
    [v EXCEPT !.isAnimating = FALSE, !.timerPending = FALSE,
              !.isInteracting = TRUE, !.lastInteractionPosition = [x |-> x, y |-> y]]

handleInteractionMoveFromStart(v, x, y) ==
    LET dx == x - v.lastInteractionPosition.x
        dy == y - v.lastInteractionPosition.y
    IN  [v EXCEPT !.transform.x = QAdd(@, QInt(dx)),
                  !.transform.y = QAdd(@, QInt(dy)),
                  !.moves = @ + 1]

\* handleInteractionMove past its early return
handleInteractionMove(v, x, y) ==
    LET dx == x - v.lastInteractionPosition.x
        dy == y - v.lastInteractionPosition.y
    IN  [v EXCEPT !.lastInteractionPosition = [x |-> x, y |-> y],
                  !.transform.x = QAdd(@, QInt(dx)),
                  !.transform.y = QAdd(@, QInt(dy)),
                  !.moves = @ + 1]

\* a mousedown whose target is the canvas
handleMouseDown(p) ==
    /\ ~view.isInteracting
    /\ view' = [handleInteractionStart(view, p.x, p.y) EXCEPT
                   !.last = Event("mousedown", 0, QInt(p.x), QInt(p.y), QInt(1))]
    /\ UNCHANGED <<appVars, place, svc>>

handleMouseMove(p) ==
    /\ view.isInteracting
    /\ view' = [handleInteractionMove(view, p.x, p.y) EXCEPT
                   !.last = Event("mousemove", 0, QInt(p.x), QInt(p.y), QInt(1))]
    /\ UNCHANGED <<appVars, place, svc>>

\* mouseup, touchend, touchcancel
handleInteractionEnd ==
    /\ view' = [view EXCEPT !.isInteracting = FALSE, !.lastPinchDist = 0,
                            !.last = Event("end", 0, QInt(0), QInt(0), QInt(1))]
    /\ UNCHANGED <<appVars, place, svc>>

\* a touchstart whose target is the canvas
handleTouchStart(touches) ==
    /\ IF Len(touches) = 1
       THEN /\ ~view.isInteracting
            /\ view' = [handleInteractionStart(view, touches[1].x, touches[1].y) EXCEPT
                           !.last = Event("touchstart", 1, QInt(touches[1].x),
                                          QInt(touches[1].y), QInt(1))]
       ELSE LET dx == touches[1].x - touches[2].x
                dy == touches[1].y - touches[2].y
            IN  view' = [view EXCEPT
                            !.isInteracting = FALSE,
                            !.lastPinchDist = Sqrt(dx * dx + dy * dy),
                            !.last = Event("touchstart", 2, Q(touches[1].x + touches[2].x, 2),
                                           Q(touches[1].y + touches[2].y, 2), QInt(1))]
    /\ UNCHANGED <<appVars, place, svc>>

\* handleTouchMove; the updater given to setTransform reads
\* lastPinchDist.current when React runs it: at once (eager), or at the next
\* render, after lastPinchDist.current = newDist
handleTouchMove(touches, eager) ==
    /\ IF Len(touches) = 1
       THEN /\ view.isInteracting
            /\ eager
            /\ view' = [handleInteractionMove(view, touches[1].x, touches[1].y) EXCEPT
                           !.last = Event("touchmove", 1, QInt(touches[1].x),
                                          QInt(touches[1].y), QInt(1))]
       ELSE LET dx == touches[1].x - touches[2].x
                dy == touches[1].y - touches[2].y
                newDist == Sqrt(dx * dx + dy * dy)
                pinchCenterX == QSub(Q(touches[1].x + touches[2].x, 2), QInt(ViewRect.left))
                pinchCenterY == QSub(Q(touches[1].y + touches[2].y, 2), QInt(ViewRect.top))
                scaleFactor == IF eager THEN Q(newDist, view.lastPinchDist)
                               ELSE Q(newDist, newDist)
            IN  IF view.lastPinchDist > 0
                THEN view' = [view EXCEPT
                                 !.transform = ZoomAbout(view.transform, scaleFactor,
                                                         pinchCenterX, pinchCenterY),
                                 !.lastPinchDist = newDist,
                                 !.moves = @ + 1,
                                 !.last = Event("pinch", 2, pinchCenterX, pinchCenterY,
                                                scaleFactor)]
                ELSE /\ eager
                     /\ view' = [view EXCEPT
                                    !.lastPinchDist = newDist,
                                    !.last = Event("touchmove", 2, pinchCenterX,
                                                   pinchCenterY, QInt(1))]
    /\ UNCHANGED <<appVars, place, svc>>

\* the 700 ms timeout of animateToTransform fires
AnimationTimeout ==
    /\ view.timerPending
    /\ view' = [view EXCEPT !.isAnimating = FALSE, !.timerPending = FALSE,
                            !.last = Event("timeout", 0, QInt(0), QInt(0), QInt(1))]
    /\ UNCHANGED <<appVars, place, svc>>

\* the cleanup of the effect that registers the event handlers; its
\* dependency is onClearFocus, a function App creates anew at each render,
\* so the cleanup runs whenever App has rendered again
EffectCleanup(v) == [v EXCEPT !.timerPending = FALSE]

\* the view after a handler of App: App renders again when the handler has
\* changed its state
Rerendered(v, stateChanged) == IF stateChanged THEN EffectCleanup(v) ELSE v

\* App.handleNodeClick
handleNodeClick(nodeId) ==
    LET newFocusedId == IF focusedNodeId = nodeId THEN "" ELSE nodeId
        newEditingId == IF editingNodeId # "" /\ editingNodeId # nodeId
                        THEN "" ELSE editingNodeId
        moved == IF newFocusedId # "" THEN focusOnNode(view, nodes, nodeId) ELSE view
        stateChanged == newFocusedId # focusedNodeId \/ newEditingId # editingNodeId
    IN  /\ editingNodeId' = newEditingId
        /\ focusedNodeId' = newFocusedId
        /\ view' = [Rerendered(moved, stateChanged) EXCEPT
                       !.last = Event("click", 0, QInt(0), QInt(0), QInt(1))]
        /\ UNCHANGED <<nodes, edges, isLoading, lastUserNodeId, inflight, timers, now,
                       exhausted, lastOp, place, svc>>

\* App.handleResetView
handleResetView ==
    /\ focusedNodeId' = ""
    /\ view' = [Rerendered(zoomToFit(view, nodes), focusedNodeId # "") EXCEPT
                   !.last = Event("reset", 0, QInt(0), QInt(0), QInt(1))]
    /\ UNCHANGED <<nodes, edges, isLoading, editingNodeId, lastUserNodeId, inflight,
                   timers, now, exhausted, lastOp, place, svc>>

\* App.handleClearFocus, called by handleBackgroundClick
handleClearFocus ==
    /\ focusedNodeId' = ""
    /\ editingNodeId' = ""
    /\ view' = Rerendered(view, focusedNodeId # "" \/ editingNodeId # "")
    /\ UNCHANGED <<nodes, edges, isLoading, lastUserNodeId, inflight, timers, now,
                   exhausted, lastOp, place, svc>>

CanMove == view.moves < MaxMoves

NextView ==
    \/ CanMove /\ \E e \in WheelEvents : handleWheel(e)
    \/ \E p \in MousePoints : handleMouseDown(p)
    \/ CanMove /\ \E p \in MousePoints : handleMouseMove(p)
    \/ handleInteractionEnd
    \/ \E t \in OneFinger \cup TwoFingers : handleTouchStart(t)
    \/ CanMove /\ \E t \in OneFinger \cup TwoFingers, eager \in BOOLEAN : handleTouchMove(t, eager)
    \/ AnimationTimeout
    \/ CanMove /\ \E id \in Ids(nodes) : handleNodeClick(id)
    \/ CanMove /\ handleResetView
    \/ handleClearFocus

SpecView == InitView /\ [][NextView]_vars

\* ------------------------------------------- the viewport while turns run
\* SpecLive runs the event handlers of DiagramView together with the
\* handlers of App that change the diagram: each of these makes App render
\* again, and the deferred focus requests of handleSend run as steps of
\* their own.
\* the second turn has been sent and waits for its reply
SecondThinking ==
    MkNode("ai-2", "ai", [NoData EXCEPT !.isLoading = TRUE],
           [x |-> SecondUser.position.x, y |-> SecondUser.position.y + ThinkingOffsetY],
           NODE_WIDTH, AI_NODE_BASE_HEIGHT)

InitLive ==
    /\ nodes = <<StartNode, PlacedUser, PlacedReply, SecondUser, SecondThinking>>
    /\ edges = ViewEdges
    /\ isLoading = TRUE
    /\ focusedNodeId = ""
    /\ editingNodeId = ""
    /\ lastUserNodeId = "user-2"
    /\ inflight = {[prompt |-> <<"b">>, userNodeId |-> "user-2", aiNodeId |-> "ai-2",
                    userPosition |-> SecondUser.position]}
    /\ timers = {[id |-> "user-2", setFocused |-> FALSE]}
    /\ now = MaxNow - 1
    /\ exhausted = {}
    /\ lastOp = NoOp
    /\ place = NoPlacement
    /\ svc = NoCall
    /\ view = MountedView(800, 600)

\* a handler of App that changes the diagram, and the render that follows
ThenRenders ==
    /\ view' = EffectCleanup(view)
    /\ UNCHANGED <<place, svc>>

\* the callback of a setTimeout(..., 100) of handleSend: focusOnNode, and
\* after a reply setFocusedNodeId as well
DeferredFocus(timer) ==
    LET newFocusedId == IF timer.setFocused THEN timer.id ELSE focusedNodeId
    IN  /\ timer \in timers
        /\ timers' = timers \ {timer}
        /\ focusedNodeId' = newFocusedId
        /\ view' = [Rerendered(focusOnNode(view, nodes, timer.id),
                               newFocusedId # focusedNodeId) EXCEPT
                       !.last = Event("focus", 0, QInt(0), QInt(0), QInt(1))]
        /\ lastOp' = [NoOp EXCEPT !.kind = "focus", !.node = timer.id]
        /\ UNCHANGED <<nodes, edges, isLoading, editingNodeId, lastUserNodeId, inflight,
                       now, exhausted, place, svc>>

LiveReplies == {PlainReply}
LiveEdits == {<<"b">>}
LiveWheel == {[clientX |-> 100, clientY |-> 200, deltaY |-> 500, ctrlKey |-> FALSE]}
LiveDown == {[x |-> 100, y |-> 200]}
LiveMove == {[x |-> 130, y |-> 180]}
LiveTouchStart ==
    {<<[x |-> 100, y |-> 200]>>, <<[x |-> 250, y |-> 300], [x |-> 550, y |-> 700]>>}
LiveTouchMove ==
    {<<[x |-> 130, y |-> 180]>>, <<[x |-> 325, y |-> 400], [x |-> 475, y |-> 600]>>}

NextLive ==
    \/ /\ ClockRuns
       /\ \E t \in LiveEdits, s \in SendAngles, d \in SpiralDraws :
             handleSaveEdit("user-0", t, s, d)
       /\ ThenRenders
    \/ /\ ClockRuns
       /\ \E turn \in inflight, r \in LiveReplies, d \in SpiralDraws : Respond(turn, r, d)
       /\ ThenRenders
    \/ /\ \E i \in 1..Len(nodes) : \E h \in RenderedHeights(nodes[i]) \ {nodes[i].height} :
             handleNodeMeasured(nodes[i].id, nodes[i].width, h)
       /\ ThenRenders
    \/ CanMove /\ \E timer \in timers : DeferredFocus(timer)
    \/ CanMove /\ \E e \in LiveWheel : handleWheel(e)
    \/ \E p \in LiveDown : handleMouseDown(p)
    \/ CanMove /\ \E p \in LiveMove : handleMouseMove(p)
    \/ handleInteractionEnd
    \/ \E t \in LiveTouchStart : handleTouchStart(t)
    \/ CanMove /\ \E t \in LiveTouchMove : handleTouchMove(t, TRUE)
    \/ AnimationTimeout
    \/ CanMove /\ handleNodeClick(lastUserNodeId)

SpecLive == InitLive /\ [][NextLive]_vars

\* the 700 ms timeout, once set, fires unless it is cleared
SpecLiveFair == SpecLive /\ WF_vars(AnimationTimeout)

\* ------------------------------------------------------ the focus by itself
\* nodeMap.get(id): a Map built from the node list keeps the last node of an
\* id; 0 when absent
nodeMapGet(ns, id) ==
    IF \E i \in 1..Len(ns) : ns[i].id = id
    THEN CHOOSE i \in 1..Len(ns) : ns[i].id = id /\ \A j \in (i + 1)..Len(ns) : ns[j].id # id
    ELSE 0

activeNodeIdsAnyType(focused, es, ns) ==
    IF focused = "" THEN [isNull |-> TRUE, ids |-> {}]
    ELSE
    LET primaryActive[i \in 0..Len(es)] ==
            IF i = 0 THEN {focused}
            ELSE primaryActive[i - 1]
                 \cup (IF es[i].source = focused THEN {es[i].target} ELSE {})
                 \cup (IF es[i].target = focused THEN {es[i].source} ELSE {})
        primary == primaryActive[Len(es)]
        added == {es[i].target : i \in {j \in 1..Len(es) :
                     /\ es[j].source \in primary
                     /\ nodeMapGet(ns, es[j].target) # 0}}
    IN  [isNull |-> FALSE, ids |-> primary \cup added]

\* the useMemo activeNodeIds of DiagramView; isNull stands for the null it
\* returns without a focused node
activeNodeIds(focused, es, ns) ==
    IF focused = "" THEN [isNull |-> TRUE, ids |-> {}]
    ELSE
    LET primaryActive[i \in 0..Len(es)] ==
            IF i = 0 THEN {focused}
            ELSE primaryActive[i - 1]
                 \cup (IF es[i].source = focused THEN {es[i].target} ELSE {})
                 \cup (IF es[i].target = focused THEN {es[i].source} ELSE {})
        primary == primaryActive[Len(es)]
        added == {es[i].target : i \in {j \in 1..Len(es) :
                     /\ es[j].source \in primary
                     /\ nodeMapGet(ns, es[j].target) # 0
                     /\ ns[nodeMapGet(ns, es[j].target)].type \in {"source", "code"}}}
    IN  [isNull |-> FALSE, ids |-> primary \cup added]

\* the isFaded prop a node is rendered with
isFaded(node) ==
    LET active == activeNodeIds(focusedNodeId, edges, nodes)
    IN  focusedNodeId # "" /\ (active.isNull \/ node.id \notin active.ids)

\* diagrams the orchestrator reaches: two turns that cite the same page, the
\* second with a code block and attached to the root by the model's choice;
\* one turn with a citation; two plain turns
SourceTitle == <<"s">>
CitedSource == [uri |-> "u1", title |-> SourceTitle]
CitingTurns ==
    [nodes |->
        <<StartNode, PlacedUser,
          MkNode("ai-0", "ai",
                 [NoData EXCEPT !.text = <<"h", "i">>, !.sources = <<CitedSource>>],
                 [x |-> 373, y |-> 1069], NODE_WIDTH, AI_NODE_BASE_HEIGHT),
          MkNode("source-1-0", "source",
                 [NoData EXCEPT !.text = SourceTitle, !.uri = "u1"],
                 [x |-> 373, y |-> 1469], NODE_WIDTH, SOURCE_NODE_HEIGHT),
          MkNode("user-2", "user", [NoData EXCEPT !.text = <<"a">>],
                 [x |-> 971, y |-> 1046], NODE_WIDTH, USER_NODE_HEIGHT),
          MkNode("ai-2", "ai",
                 [NoData EXCEPT !.text = <<"h", "i">>, !.weather = TRUE,
                                !.sources = <<CitedSource>>],
                 [x |-> 55, y |-> 243], NODE_WIDTH, AI_NODE_BASE_HEIGHT),
          MkNode("code-3", "code", [NoData EXCEPT !.text = <<"c">>, !.language = "ts"],
                 [x |-> -156, y |-> 595], CODE_NODE_WIDTH, CODE_NODE_HEIGHT)>>,
     edges |->
        <<Edge("start-node", "user-0"), Edge("ai-0", "new-source-u1"),
          Edge("user-0", "ai-0"), Edge("user-0", "user-2"),
          Edge("ai-2", "source-1-0"), Edge("ai-2", "code-3"),
          Edge("start-node", "ai-2")>>,
     lastUserNodeId |-> "user-2", now |-> 4]
CitingTurn ==
    [nodes |-> SubSeq(CitingTurns.nodes, 1, 4),
     edges |-> SubSeq(CitingTurns.edges, 1, 3),
     lastUserNodeId |-> "user-0", now |-> 2]
PlainTurns ==
    [nodes |-> ViewNodes, edges |-> ViewEdges, lastUserNodeId |-> "user-2", now |-> 4]
FocusDiagrams == {CitingTurns, CitingTurn, PlainTurns}

InitFocus ==
    /\ \E g \in FocusDiagrams :
          /\ nodes = g.nodes
          /\ edges = g.edges
          /\ lastUserNodeId = g.lastUserNodeId
          /\ now = g.now
    /\ isLoading = FALSE
    /\ focusedNodeId = ""
    /\ editingNodeId = ""
    /\ inflight = {}
    /\ timers = {}
    /\ exhausted = {}
    /\ lastOp = NoOp
    /\ place = NoPlacement
    /\ svc = NoCall
    /\ \E size \in ViewSizes : view = MountedView(size.w, size.h)

\* DiagramViewHandle.focusOnNode called through the ref of App; GhostId is an
\* id the diagram does not hold
FocusCall(nodeId) ==
    /\ view' = [focusOnNode(view, nodes, nodeId) EXCEPT
                   !.last = Event("focus", 0, QInt(0), QInt(0), QInt(1))]
    /\ lastOp' = [NoOp EXCEPT !.kind = "focus", !.node = nodeId]
    /\ UNCHANGED <<nodes, edges, isLoading, focusedNodeId, editingNodeId, lastUserNodeId,
                   inflight, timers, now, exhausted, place, svc>>

NextFocus ==
    \/ CanMove /\ \E id \in Ids(nodes) : handleNodeClick(id)
    \/ handleClearFocus
    \/ AnimationTimeout
    \/ CanMove /\ \E id \in Ids(nodes) \cup {GhostId} : FocusCall(id)

SpecFocus == InitFocus /\ [][NextFocus]_vars

\* ------------------------------------------------------------ drawn edges
\* Math.sqrt(dx*dx + dy*dy), rounded down to a whole number (exact for the
\* horizontal and vertical edges of the diagrams below)
RECURSIVE SqrtBetween(_, _, _)
SqrtBetween(n, lo, hi) ==
    IF lo >= hi THEN lo
    ELSE LET mid == (lo + hi + 1) \div 2
         IN  IF mid * mid <= n THEN SqrtBetween(n, mid, hi) ELSE SqrtBetween(n, lo, mid - 1)
Norm(dx, dy) == QInt(SqrtBetween(dx * dx + dy * dy, 0, 4600))

\* getBoundaryPoint.  angle = atan2(dy, dx) and cornerAngle = atan2(halfHeight,
\* halfWidth) are compared through their tangents; tan(angle) is dy / dx
getBoundaryPoint(source, target, offset) ==
    LET dx == target.position.x - source.position.x
        dy == target.position.y - source.position.y
        halfWidth == Q(source.width, 2)
        halfHeight == Q(source.height, 2)
        tan == Q(dy, dx)
        cot == Q(dx, dy)
        \* -cornerAngle <= angle <= cornerAngle
        right == dx > 0 /\ Abs(dy) * source.width <= source.height * dx
        \* cornerAngle < angle < PI - cornerAngle
        bottom == dy > 0 /\ Abs(dx) * source.height < source.width * dy
        \* angle >= PI - cornerAngle or angle <= -(PI - cornerAngle)
        left == dx < 0 /\ Abs(dy) * source.width <= source.height * (-dx)
        edge == IF right THEN [x |-> QAdd(QInt(source.position.x), halfWidth),
                               y |-> QAdd(QInt(source.position.y), QMul(halfWidth, tan))]
                ELSE IF bottom THEN [x |-> QAdd(QInt(source.position.x), QMul(halfHeight, cot)),
                                     y |-> QAdd(QInt(source.position.y), halfHeight)]
                ELSE IF left THEN [x |-> QSub(QInt(source.position.x), halfWidth),
                                   y |-> QSub(QInt(source.position.y), QMul(halfWidth, tan))]
                ELSE [x |-> QSub(QInt(source.position.x), QMul(halfHeight, cot)),
                      y |-> QSub(QInt(source.position.y), halfHeight)]
        norm == Norm(dx, dy)
    IN  IF dx = 0 /\ dy = 0
        THEN [x |-> QInt(source.position.x), y |-> QInt(source.position.y)]
        ELSE IF offset > 0
        THEN [x |-> QSub(edge.x, QMul(QDiv(QInt(dx), norm), QInt(offset))),
              y |-> QSub(edge.y, QMul(QDiv(QInt(dy), norm), QInt(offset)))]
        ELSE edge

EdgeInset == 15
ContentMargin == 1000

\* contentBounds.offsetX and offsetY, doubled to stay in whole numbers
contentBounds(ns) ==
    IF Len(ns) = 0 THEN [offsetX |-> QInt(0), offsetY |-> QInt(0)]
    ELSE [offsetX |-> QSub(Q(MinOf({2 * ns[i].position.x - ns[i].width : i \in 1..Len(ns)}), 2),
                           QInt(ContentMargin)),
          offsetY |-> QSub(Q(MinOf({2 * ns[i].position.y - ns[i].height : i \in 1..Len(ns)}), 2),
                           QInt(ContentMargin))]

\* drawnEdges: one line per edge whose two nodes exist and have a width
drawnEdges(ns, es, focused) ==
    LET active == activeNodeIds(focused, es, ns)
        drawable(e) == /\ nodeMapGet(ns, e.source) # 0
                       /\ nodeMapGet(ns, e.target) # 0
                       /\ ns[nodeMapGet(ns, e.source)].width # 0
                       /\ ns[nodeMapGet(ns, e.target)].width # 0
        bounds == contentBounds(ns)
        draw(e) ==
            LET sourceNode == ns[nodeMapGet(ns, e.source)]
                targetNode == ns[nodeMapGet(ns, e.target)]
                start == getBoundaryPoint(sourceNode, targetNode, 0)
                end == getBoundaryPoint(targetNode, sourceNode, EdgeInset)
            IN  [id |-> e.id,
                 start |-> start,
                 end |-> end,
                 path |-> [mx |-> QSub(start.x, bounds.offsetX), my |-> QSub(start.y, bounds.offsetY),
                           lx |-> QSub(end.x, bounds.offsetX), ly |-> QSub(end.y, bounds.offsetY)],
                 isFaded |-> focused # "" /\ (active.isNull \/ e.source \notin active.ids
                                               \/ e.target \notin active.ids)]
        kept == SelectSeq(es, drawable)
    IN  [k \in 1..Len(kept) |-> draw(kept[k])]

\* ------------------------------------------- streamGroundedResponse, steps
\* SpecStream follows one call from the fetch to the return.  The handler
\* that calls this version of the service is not among the sources; the
\* model keeps of it what the specification says: the text given to the
\* stream callback is appended to the provisional node, and when the call
\* returns the loading flags are cleared.
\* the three backquotes of a code fence are written as three quotes
Marker == "'''json"
Fence == "'''"
ValidJson == <<"{p}">>
SomeFields ==
    [position |-> <<SomePosition>>, sourceNodeId |-> "user-0", reasoning |-> TRUE,
     weather |-> FALSE, stock |-> FALSE, code |-> <<SomeCode>>]
TimeoutMessage ==
    <<"The request timed out after 60 seconds. Please try a simpler prompt or check your connection.">>
ErrorNoticePrefix == <<"\n\nSorry, I encountered an error: ">>
AbortError == [name |-> "AbortError", message |-> <<"The user aborted a request.">>]
FetchError == [name |-> "TypeError", message |-> <<"Failed to fetch">>]
StatusError(status, errorText) ==
    [name |-> "Error",
     message |-> <<"API request failed with status ", ToString(status), ": ">> \o errorText]

\* the data records of the stream: a chunk of the collaborator (its text,
\* its grounding chunks if it has any), the error record the proxy sends
\* when the collaborator fails, or data that JSON.parse rejects
TextRecord(text) == [kind |-> "chunk", text |-> text, hasGrounding |-> FALSE, grounding |-> <<>>]
GroundedRecord ==
    [kind |-> "chunk", text |-> <<>>, hasGrounding |-> TRUE,
     grounding |-> <<[uri |-> "u1", title |-> <<"s">>], [uri |-> "", title |-> <<>>]>>]
ErrorRecord ==
    [kind |-> "error", text |-> <<"quota">>, hasGrounding |-> FALSE, grounding |-> <<>>]
GarbageRecord ==
    [kind |-> "garbage", text |-> <<>>, hasGrounding |-> FALSE, grounding |-> <<>>]
Records ==
    {TextRecord(<<"a">>), TextRecord(<<"b", Marker, "{p}">>), TextRecord(<<Fence>>),
     TextRecord(<<"{">>), GroundedRecord, ErrorRecord, GarbageRecord}
\* what one reader.read() delivers: the data lines of one SSE chunk
Reads == {<<r>> : r \in Records} \cup {<<TextRecord(<<"a">>), TextRecord(<<"b", Marker, "{p}">>)>>}
ResponseStatuses == {200, 500}
StatusText == <<"{\"error\":\"API_KEY environment variable not set\"}">>

ThinkingNode ==
    MkNode("ai-0", "ai", [NoData EXCEPT !.isLoading = TRUE],
           [x |-> 373, y |-> 819], NODE_WIDTH, AI_NODE_BASE_HEIGHT)

\* String.prototype.indexOf, 0 for -1
IndexOf(text, token) ==
    IF \E i \in 1..Len(text) : text[i] = token
    THEN CHOOSE i \in 1..Len(text) : text[i] = token /\ \A j \in 1..(i - 1) : text[j] # token
    ELSE 0

\* jsonBlock.replace(/```/g, ""): a fence goes, a marker leaves "json"
RECURSIVE ReplaceFences(_)
ReplaceFences(text) ==
    IF text = <<>> THEN <<>>
    ELSE IF Head(text) = Fence THEN ReplaceFences(Tail(text))
    ELSE IF Head(text) = Marker THEN <<"json">> \o ReplaceFences(Tail(text))
    ELSE <<Head(text)>> \o ReplaceFences(Tail(text))

\* JSON.parse: ok is FALSE when it throws
JsonParse(text) ==
    IF text = ValidJson THEN [ok |-> TRUE, value |-> SomeFields]
    ELSE [ok |-> FALSE, value |-> NoFields]

\* rawSources.map(...).filter(source => source.uri)
SourcesOf(groundingChunks) ==
    LET mapped == [i \in 1..Len(groundingChunks) |->
                      [uri |-> groundingChunks[i].uri,
                       title |-> IF groundingChunks[i].title = <<>>
                                 THEN <<"Untitled Source">>
                                 ELSE groundingChunks[i].title]]
    IN  SelectSeq(mapped, LAMBDA source : source.uri # "")

\* the caller's stream callback (from the specification): the chunk is
\* appended to the text of the provisional node
AppendNodeText(ns, nodeId, textChunk) ==
    [i \in 1..Len(ns) |->
        IF ns[i].id = nodeId THEN [ns[i] EXCEPT !.data.text = @ \o textChunk] ELSE ns[i]]

\* the caller when the call has returned (from the specification): the
\* node stops loading
SettleNode(ns, nodeId) ==
    [i \in 1..Len(ns) |->
        IF ns[i].id = nodeId THEN [ns[i] EXCEPT !.data.isLoading = FALSE] ELSE ns[i]]

\* a call in progress: c.svc is the call, c.nodes the caller's node list,
\* c.ai the provisional node
onStream(c, textChunk, recordNo) ==
    [c EXCEPT !.svc.streamed = Append(@, textChunk),
              !.svc.streamedAt = Append(@, recordNo),
              !.nodes = AppendNodeText(@, c.ai, textChunk)]

Returned(c, via, result) ==
    [c EXCEPT !.svc.pc = "returned", !.svc.via = via, !.svc.result = result,
              !.nodes = SettleNode(@, c.ai)]

errorMessageOfAnyError(error) == error.message

\* errorMessage of the catch block
errorMessageOf(error) ==
    IF error.name = "AbortError" THEN TimeoutMessage ELSE error.message

\* the catch block of streamGroundedResponse
Catch(c, error) ==
    Returned(onStream([c EXCEPT !.svc.logged = @ + 1, !.svc.caught = error.name],
                      ErrorNoticePrefix \o errorMessageOf(error), 0),
             "catch", NoResult)

ProcessRecordForgettingBlock(c, rec) ==
    LET recordNo == Len(c.svc.received) + 1
        seen == [c EXCEPT !.svc.received = Append(@, rec)]
    IN  IF rec.kind = "garbage" THEN [seen EXCEPT !.svc.logged = @ + 1]
        ELSE IF rec.kind = "error"
        THEN [seen EXCEPT !.svc.logged = @ + 1, !.svc.errors = Append(@, "record")]
        ELSE
        LET noted == IF rec.hasGrounding
                     THEN [seen EXCEPT !.svc.groundingMetadata = rec.grounding]
                     ELSE seen
            chunkText == rec.text
            jsonStartIndex == IndexOf(chunkText, Marker)
        IN  IF jsonStartIndex # 0
            THEN LET textPart == SubSeq(chunkText, 1, jsonStartIndex - 1)
                     streamed == onStream(noted, textPart, recordNo)
                 IN  [streamed EXCEPT
                         !.svc.fullText = @ \o textPart,
                         !.svc.jsonBlock = @ \o SubSeq(chunkText, jsonStartIndex + 1,
                                                        Len(chunkText))]
            ELSE [onStream(noted, chunkText, recordNo) EXCEPT
                     !.svc.fullText = @ \o chunkText]

\* the body of the loop over the lines of an SSE chunk, for one data line
ProcessRecord(c, rec) ==
    LET recordNo == Len(c.svc.received) + 1
        seen == [c EXCEPT !.svc.received = Append(@, rec)]
    IN  IF rec.kind = "garbage" THEN [seen EXCEPT !.svc.logged = @ + 1]
        ELSE IF rec.kind = "error"
        THEN \* thrown inside the try of the loop body, caught by its catch
             [seen EXCEPT !.svc.logged = @ + 1, !.svc.errors = Append(@, "record")]
        ELSE
        LET noted == IF rec.hasGrounding
                     THEN [seen EXCEPT !.svc.groundingMetadata = rec.grounding]
                     ELSE seen
            chunkText == rec.text
            jsonStartIndex == IndexOf(chunkText, Marker)
        IN  IF ~noted.svc.inJsonBlock
            THEN IF jsonStartIndex # 0
                 THEN LET textPart == SubSeq(chunkText, 1, jsonStartIndex - 1)
                          streamed == onStream(noted, textPart, recordNo)
                      IN  [streamed EXCEPT
                              !.svc.inJsonBlock = TRUE,
                              !.svc.fullText = @ \o textPart,
                              !.svc.jsonBlock = @ \o SubSeq(chunkText, jsonStartIndex + 1,
                                                             Len(chunkText))]
                 ELSE [onStream(noted, chunkText, recordNo) EXCEPT
                          !.svc.fullText = @ \o chunkText]
            ELSE [noted EXCEPT !.svc.jsonBlock = @ \o chunkText]

RECURSIVE ProcessLines(_, _)
ProcessLines(c, lines) ==
    IF lines = <<>> THEN c
    ELSE ProcessLines(ProcessRecord(c, Head(lines)), Tail(lines))

FinishRaising(c) ==
    LET finalJson == Trim(ReplaceFences(c.svc.jsonBlock))
        parsed == JsonParse(finalJson)
    IN  IF finalJson # <<>> /\ ~parsed.ok
        THEN Catch(c, [name |-> "SyntaxError", message |-> <<"Unexpected token">>])
        ELSE Returned(c, "success",
                      [sources |-> SourcesOf(c.svc.groundingMetadata),
                       fields |-> parsed.value,
                       fullText |-> c.svc.fullText])

\* after the read loop: the final JSON parse and the return value
Finish(c) ==
    LET finalJson == Trim(ReplaceFences(c.svc.jsonBlock))
        parsed == JsonParse(finalJson)
        failed == finalJson # <<>> /\ ~parsed.ok
        parsedResponse == IF finalJson # <<>> /\ parsed.ok THEN parsed.value ELSE NoFields
        logged == IF failed THEN [c EXCEPT !.svc.logged = @ + 1] ELSE c
    IN  Returned(logged, "success",
                 [sources |-> SourcesOf(c.svc.groundingMetadata),
                  fields |-> parsedResponse,
                  fullText |-> c.svc.fullText])

MaxRecords == 3

Call == [svc |-> svc, nodes |-> nodes, ai |-> "ai-0"]

\* the state after a step of the call, and what the step leaves alone
StreamStep(c) ==
    /\ svc' = c.svc
    /\ nodes' = c.nodes
    /\ isLoading' = IF c.svc.pc = "returned" THEN FALSE ELSE isLoading
    /\ UNCHANGED <<edges, focusedNodeId, editingNodeId, lastUserNodeId, inflight,
                   timers, now, exhausted, lastOp, place, view>>

\* fetch resolves: the response headers have arrived
FetchResolves(status) ==
    /\ svc.pc = "fetch"
    /\ ~svc.aborted
    /\ LET cleared == [Call EXCEPT !.svc.timerPending = FALSE]
       IN  IF status = 200
           THEN StreamStep([cleared EXCEPT !.svc.pc = "read"])
           ELSE StreamStep(Catch([cleared EXCEPT !.svc.errors = Append(@, "status")],
                                 StatusError(status, StatusText)))

\* fetch rejects: the request did not get through
FetchRejects ==
    /\ svc.pc = "fetch"
    /\ ~svc.aborted
    /\ StreamStep(Catch([Call EXCEPT !.svc.errors = Append(@, "transport")], FetchError))

\* 60 s after the call: the timer fires if it is still pending
Deadline ==
    /\ svc.pc # "idle"
    /\ ~svc.deadlinePassed
    /\ StreamStep([Call EXCEPT !.svc.deadlinePassed = TRUE,
                               !.svc.aborted = svc.timerPending \/ svc.aborted,
                               !.svc.timerPending = FALSE])

\* the aborted fetch rejects with an AbortError
FetchAborted ==
    /\ svc.pc = "fetch"
    /\ svc.aborted
    /\ StreamStep(Catch(Call, AbortError))

\* reader.read() resolves with a chunk
ReaderRead(lines) ==
    /\ svc.pc = "read"
    /\ Len(svc.received) + Len(lines) <= MaxRecords
    /\ StreamStep(ProcessLines(Call, lines))

\* reader.read() resolves with done
ReaderDone ==
    /\ svc.pc = "read"
    /\ StreamStep(Finish(Call))

\* reader.read() rejects: the connection broke while streaming
ReaderRejects ==
    /\ svc.pc = "read"
    /\ StreamStep(Catch([Call EXCEPT !.svc.errors = Append(@, "transport")], FetchError))

InitStream ==
    /\ nodes = <<StartNode, PlacedUser, ThinkingNode>>
    /\ edges = <<Edge("start-node", "user-0"), Edge("user-0", "ai-0")>>
    /\ isLoading = TRUE
    /\ focusedNodeId = ""
    /\ editingNodeId = ""
    /\ lastUserNodeId = "user-0"
    /\ inflight = {[prompt |-> <<"a">>, userNodeId |-> "user-0", aiNodeId |-> "ai-0",
                    userPosition |-> PlacedUser.position]}
    /\ timers = {}
    /\ now = 1
    /\ exhausted = {}
    /\ lastOp = NoOp
    /\ place = NoPlacement
    /\ view = MountedView(800, 600)
    /\ svc = [NoCall EXCEPT !.pc = "fetch", !.timerPending = TRUE]

NextStream ==
    \/ \E status \in ResponseStatuses : FetchResolves(status)
    \/ FetchRejects
    \/ Deadline
    \/ FetchAborted
    \/ \E lines \in Reads : ReaderRead(lines)
    \/ ReaderDone
    \/ ReaderRejects

SpecStream == InitStream /\ [][NextStream]_vars

\* ================================================================= claims

\* C1: once a confirmed regeneration of AI node N (whose parent is a user
\* node) has inserted the replayed turn's user node and provisional AI node,
\* N and every node reachable from N along outbound edges are gone from the
\* diagram, no edge touches any of them, and every node that was not
\* reachable from N is still there unchanged.
C1_RegenerateRemovesSubtree ==
    [][lastOp'.kind = "regenerate" =>
          LET removed == getDescendants(lastOp'.node, edges) \cup {lastOp'.node}
          IN  /\ \A i \in 1..Len(nodes') : nodes'[i].id \notin removed
              /\ \A j \in 1..Len(edges') :
                    edges'[j].source \notin removed /\ edges'[j].target \notin removed
              /\ \A i \in 1..Len(nodes) :
                    nodes[i].id \notin removed => nodes[i] \in Range(nodes')]_vars

\* C2: once an edit-and-resend of node E with a non-empty text T that differs
\* from E's text has inserted the replayed turn's user node and provisional
\* AI node, E is in the diagram with text T, and no node that was reachable
\* from E, nor any edge touching such a node, remains.
C2_EditKeepsNodeDropsDescendants ==
    [][lastOp'.kind = "saveEdit" =>
          LET former == getDescendants(lastOp'.node, edges)
          IN  /\ \E i \in 1..Len(nodes') :
                    nodes'[i].id = lastOp'.node /\ nodes'[i].data.text = lastOp'.text
              /\ \A i \in 1..Len(nodes') : nodes'[i].id \notin former
              /\ \A j \in 1..Len(edges') :
                    edges'[j].source \notin former /\ edges'[j].target \notin former]_vars

\* C3: a position returned by findNonOverlappingPosition before its 200
\* attempts are used up is clear of every existing node n (centres at least
\* (w + n.width)/2 + 80 apart in x, or (h + n.height)/2 + 80 apart in y), and
\* a desired position that is already clear is returned unchanged.
C3_ReturnedPositionIsClear ==
    LET ClearAt(pos) ==
            \A i \in 1..Len(place.ns) :
                \/ 2 * Abs(pos.x - place.ns[i].position.x)
                       >= place.w + place.ns[i].width + 160
                \/ 2 * Abs(pos.y - place.ns[i].position.y)
                       >= place.h + place.ns[i].height + 160
    IN  place.pc = "done" =>
            /\ place.st.attempts < 200 => ClearAt(place.st.pos)
            /\ ClearAt(place.startPos) => place.st.pos = place.startPos

\* C3 witness: a search that had to leave an occupied desired position and
\* returned before its attempts ran out.
C3_Witness ==
    /\ place.pc = "done"
    /\ place.st.attempts > 1
    /\ place.st.attempts < 200
    /\ place.st.pos # place.startPos

\* C4: whenever no turn is awaiting its response, every two nodes of the
\* diagram are non-overlapping (padding 80), except pairs involving a node
\* whose placement ran out of attempts.
C4_SettledDiagramHasNoOverlap ==
    inflight = {} =>
        \A i \in 1..Len(nodes), j \in 1..Len(nodes) :
            (i < j /\ nodes[i].id \notin exhausted /\ nodes[j].id \notin exhausted) =>
                \/ 2 * Abs(nodes[i].position.x - nodes[j].position.x)
                       >= nodes[i].width + nodes[j].width + 160
                \/ 2 * Abs(nodes[i].position.y - nodes[j].position.y)
                       >= nodes[i].height + nodes[j].height + 160

\* C5: the diagram never holds two edges with the same source and the same
\* target.
C5_NoDuplicateEdges ==
    \A i \in 1..Len(edges), j \in 1..Len(edges) :
        (edges[i].source = edges[j].source /\ edges[i].target = edges[j].target) => i = j

\* C5 witness: a response that cited one source twice has been applied.
C5_Witness ==
    /\ lastOp.kind = "respond"
    /\ Len(lastOp.response.sources) = 2
    /\ lastOp.response.sources[1].uri = lastOp.response.sources[2].uri
    /\ \E j \in 1..Len(edges) : edges[j].source = lastOp.ai

\* C6: after a successful response the diagram has an edge from the turn's
\* AI node to each source node and code node that response created.
C6_EdgeToEachNewNode ==
    lastOp.kind = "respond" =>
        \A id \in lastOp.created :
            \E j \in 1..Len(edges) : edges[j].source = lastOp.ai /\ edges[j].target = id

\* C7: after a successful response the turn's AI node has exactly one inbound
\* edge; it comes from the response's sourceNodeId when that names a node of
\* the diagram, and from the turn's own user node otherwise.
C7_OneInboundEdge ==
    lastOp.kind = "respond" =>
        LET inbound == {j \in 1..Len(edges) : edges[j].target = lastOp.ai}
            named == lastOp.response.sourceNodeId
            expected == IF \E i \in 1..Len(nodes) : nodes[i].id = named
                        THEN named ELSE lastOp.user
        IN  /\ Cardinality(inbound) = 1
            /\ \A j \in inbound : edges[j].source = expected

\* C7 witness: a response that designated the start node as its parent has
\* been applied.
C7_Witness ==
    /\ lastOp.kind = "respond"
    /\ lastOp.response.sourceNodeId = "start-node"
    /\ lastOp.user # "start-node"
    /\ \E j \in 1..Len(edges) : edges[j].target = lastOp.ai

\* C8: a successful response citing a source whose URI is already the URI of
\* a source node creates no new node for that URI, and leaves exactly one edge
\* from the turn's AI node to that existing source node.
C8_ExistingSourceIsReused ==
    [][lastOp'.kind = "respond" =>
          \A k \in 1..Len(lastOp'.response.sources) :
              \A i \in 1..Len(nodes) :
                  (nodes[i].type = "source"
                      /\ nodes[i].data.uri = lastOp'.response.sources[k].uri) =>
                      /\ \A m \in 1..Len(nodes') :
                            (nodes'[m].id \in lastOp'.created) =>
                                nodes'[m].data.uri # nodes[i].data.uri
                      /\ Cardinality({j \in 1..Len(edges') :
                                         /\ edges'[j].source = lastOp'.ai
                                         /\ edges'[j].target = nodes[i].id}) = 1]_vars

\* C8 witness: a response citing a URI has been applied without creating a
\* source node, the diagram holding a source node of that URI from before.
C8_Witness ==
    /\ lastOp.kind = "respond"
    /\ lastOp.response.sources # <<>>
    /\ \A id \in lastOp.created : NodeById(nodes, id).type # "source"
    /\ \E i \in 1..Len(nodes) :
          /\ nodes[i].type = "source"
          /\ nodes[i].data.uri = lastOp.response.sources[1].uri
          /\ \E j \in 1..Len(edges) :
                edges[j].source = lastOp.ai /\ edges[j].target = nodes[i].id

\* C9: at most one turn is awaiting a collaborator response at any time; no
\* send, regenerate or edit-and-resend starts a second collaborator call
\* while a turn is in flight.
C9_AtMostOneTurnInFlight == Cardinality(inflight) <= 1

\* C10: when a turn fails (collaborator error, timeout or empty response
\* text), the turn's provisional AI node stays with its id, position and
\* inbound edge, its text becomes an error message, its isLoading becomes
\* false, and no node or edge is added or removed.
C10_FailureKeepsProvisionalNode ==
    [][lastOp'.kind = "fail" =>
          /\ Len(nodes') = Len(nodes)
          /\ edges' = edges
          /\ \E i \in 1..Len(nodes) : nodes[i].id = lastOp'.ai
          /\ \A i \in 1..Len(nodes) :
                IF nodes[i].id = lastOp'.ai
                THEN /\ nodes'[i].id = nodes[i].id
                     /\ nodes'[i].position = nodes[i].position
                     /\ nodes'[i].data.text = ErrorPrefix \o lastOp'.text
                     /\ nodes'[i].data.isLoading = FALSE
                ELSE nodes'[i] = nodes[i]]_vars

\* C10 witness: a collaborator call has been rejected and the turn's AI node
\* shows the error.
C10_Witness ==
    /\ lastOp.kind = "fail"
    /\ lastOp.text \in ErrorMessages
    /\ \E i \in 1..Len(nodes) :
          /\ nodes[i].id = lastOp.ai
          /\ nodes[i].data.text = ErrorPrefix \o lastOp.text
          /\ \E j \in 1..Len(edges) : edges[j].target = lastOp.ai

\* C11: every node other than the root has exactly one inbound edge, and it
\* comes from the node it was created in response to.  The formula states
\* what every such edge has: a user node hangs under a user node or the
\* root, a source or code node under an AI node, an AI node under a node of
\* the diagram.
C11_TreeShape ==
    \A i \in 1..Len(nodes) :
        nodes[i].id # "start-node" =>
            LET inbound == {j \in 1..Len(edges) : edges[j].target = nodes[i].id}
            IN  /\ Cardinality(inbound) = 1
                /\ \A j \in inbound :
                      \E k \in 1..Len(nodes) :
                          /\ nodes[k].id = edges[j].source
                          /\ nodes[i].type = "user" => nodes[k].type \in {"user", "system"}
                          /\ nodes[i].type \in {"source", "code"} => nodes[k].type = "ai"

\* C12: the diagram always holds the root node 'start-node' at position
\* (0,0); no send, response, failure, regenerate or edit-and-resend removes
\* or moves it, so the node list is never empty.
C12_RootStays ==
    /\ nodes # <<>>
    /\ \E i \in 1..Len(nodes) :
          /\ nodes[i].id = "start-node"
          /\ nodes[i].position = [x |-> 0, y |-> 0]

\* C12 witness: a response has been applied after a regenerate or an
\* edit-and-resend replayed a turn, and the root is in the diagram.
C12_Witness ==
    /\ lastOp.kind = "respond"
    /\ \E j \in 1..Len(edges) :
          /\ edges[j].target = lastOp.user
          /\ edges[j].source # "start-node"
    /\ \E i \in 1..Len(nodes) : nodes[i].id = "start-node"

\* C17: a send from anchor node S adds exactly two nodes (a user node with
\* the prompt, a provisional AI node with empty text and isLoading set) and
\* exactly two edges (S to the user node, the user node to the AI node) and
\* leaves every earlier node and edge unchanged; S is the most recently
\* created user node (the root before any send), or the first node of the
\* diagram when that id is gone.
C17_SendAddsTwoNodesTwoEdges ==
    [][lastOp'.kind = "send" =>
          LET n == Len(nodes)
              m == Len(edges)
              users == {i \in 1..n : nodes[i].type = "user"}
              latest == IF users = {} THEN "start-node"
                        ELSE nodes[CHOOSE i \in users : \A k \in users : k <= i].id
              S == IF \E i \in 1..n : nodes[i].id = latest THEN latest ELSE nodes[1].id
          IN  /\ Len(nodes') = n + 2
              /\ \A i \in 1..n : nodes'[i] = nodes[i]
              /\ nodes'[n + 1].type = "user"
              /\ nodes'[n + 1].data.text = lastOp'.text
              /\ nodes'[n + 2].type = "ai"
              /\ nodes'[n + 2].data.text = <<>>
              /\ nodes'[n + 2].data.isLoading = TRUE
              /\ Len(edges') = m + 2
              /\ \A j \in 1..m : edges'[j] = edges[j]
              /\ edges'[m + 1].source = S
              /\ edges'[m + 1].target = nodes'[n + 1].id
              /\ edges'[m + 2].source = nodes'[n + 1].id
              /\ edges'[m + 2].target = nodes'[n + 2].id]_vars

\* C17 witness: a second prompt has been sent, anchored on the user node of
\* the turn before it.
C17_Witness ==
    /\ lastOp.kind = "send"
    /\ \E j \in 1..Len(edges), k \in 1..Len(nodes) :
          /\ edges[j].target = lastOp.user
          /\ edges[j].source = nodes[k].id
          /\ nodes[k].type = "user"

\* C18: a regenerate of node N changes nothing (nodes, edges, the anchor of
\* the next send, the busy flag) and starts no collaborator call when the
\* confirmation is declined, when N has no inbound edge, or when the source
\* of N's inbound edge is missing or is not a user node.
C18_RegenerateNoOp ==
    [][(/\ lastOp'.kind = "regenerate"
        /\ \/ ~lastOp'.confirmed
           \/ \A j \in 1..Len(edges) : edges[j].target # lastOp'.node
           \/ \E j \in 1..Len(edges) :
                 /\ edges[j].target = lastOp'.node
                 /\ \A k \in 1..(j - 1) : edges[k].target # lastOp'.node
                 /\ \A i \in 1..Len(nodes) :
                       nodes[i].id = edges[j].source => nodes[i].type # "user")
          => /\ nodes' = nodes
             /\ edges' = edges
             /\ lastUserNodeId' = lastUserNodeId
             /\ isLoading' = isLoading
             /\ inflight' = inflight]_vars

\* C18 witness: a confirmed regenerate was asked of a reply that hangs under
\* the root, which is not a user node, and nothing was sent.
C18_Witness ==
    /\ lastOp.kind = "regenerate"
    /\ lastOp.confirmed
    /\ lastOp.ai = ""
    /\ \E j \in 1..Len(edges) :
          edges[j].target = lastOp.node /\ edges[j].source = "start-node"

\* C19: saving an edit whose new text is empty or only whitespace, or equal
\* to the node's text, or that names a node not in the diagram, leaves the
\* nodes and the edges unchanged and starts no turn.
C19_SaveEditNoOp ==
    [][(/\ lastOp'.kind = "saveEdit"
        /\ \/ \A c \in 1..Len(lastOp'.text) : lastOp'.text[c] \in Whitespace
           \/ \A i \in 1..Len(nodes) : nodes[i].id # lastOp'.node
           \/ \E i \in 1..Len(nodes) :
                 nodes[i].id = lastOp'.node /\ nodes[i].data.text = lastOp'.text)
          => /\ nodes' = nodes
             /\ edges' = edges
             /\ inflight' = inflight]_vars

\* C19 witness: an edit of a user node was saved with a text of blanks only.
C19_Witness ==
    /\ lastOp.kind = "saveEdit"
    /\ lastOp.text = <<" ">>
    /\ \E i \in 1..Len(nodes) : nodes[i].id = lastOp.node /\ nodes[i].type = "user"

\* C20: findNonOverlappingPosition terminates after at most 200 passes of
\* its loop; when all 200 collision checks fail it returns the position it
\* probed last (the 200th probe: radius 250 + 28 * 150, one turn before the
\* angle the loop stopped at), whether or not that position is free.
C20_SearchTerminates ==
    /\ [](place.st.attempts <= 200)
    /\ []((place.pc = "done" /\ place.st.isOverlapping /\ place.st.attempts = 200)
            => place.st.pos = Polar(place.startPos, 250 + 28 * 150,
                                    (place.st.angle + NumDirs - 2) % NumDirs))
    /\ (place.pc = "loop" ~> place.pc = "done")

\* C20 witness: a search returned after 200 failed checks with a position
\* that overlaps an existing node.
C20_Witness ==
    /\ place.pc = "done"
    /\ place.st.attempts = 200
    /\ place.st.isOverlapping
    /\ \E i \in 1..Len(place.ns) :
          /\ 2 * Abs(place.st.pos.x - place.ns[i].position.x)
                 < place.w + place.ns[i].width + 160
          /\ 2 * Abs(place.st.pos.y - place.ns[i].position.y)
                 < place.h + place.ns[i].height + 160


\* C13: after any sequence of wheel zooms, pinch zooms, animated focus moves
\* and zoom-to-fit moves, for any layout and view size, the scale of the
\* transform lies in [0.1, 2.0].
C13_ScaleInRange ==
    /\ ~QLess(view.transform.scale, MinScale)
    /\ ~QLess(MaxScale, view.transform.scale)

\* C14: a wheel zoom at the view-relative point P, or a pinch whose midpoint
\* is P, keeps the world point under P in place: (P - translate) / scale
\* under the old transform maps back to P under the new one, also when the
\* new scale was clamped to 0.1 or 2.0.
C14_ZoomKeepsAnchor ==
    view.last.kind \in {"wheel", "pinch"} =>
        LET old == view.last.prev
            worldX == QDiv(QSub(view.last.px, old.x), old.scale)
            worldY == QDiv(QSub(view.last.py, old.y), old.scale)
        IN  /\ QAdd(QMul(worldX, view.transform.scale), view.transform.x) = view.last.px
            /\ QAdd(QMul(worldY, view.transform.scale), view.transform.y) = view.last.py

\* a zoom whose requested scale was clamped, from a transform that was
\* already panned or zoomed
C14_Witness ==
    /\ view.last.kind \in {"wheel", "pinch"}
    /\ view.last.prev # MountedView(view.clientWidth, view.clientHeight).transform
    /\ QMul(view.last.prev.scale, view.last.factor) # view.transform.scale
    /\ view.transform.scale \in {MinScale, MaxScale}

\* C15: a pointer-down on the canvas, a wheel event, or a touch gesture
\* (one-finger pan or two-finger pinch) that begins cancels an animated
\* camera move: afterwards the animating flag is false and the animation
\* timer is not pending.
C15_GestureCancelsAnimation ==
    view.last.kind \in {"mousedown", "wheel", "touchstart"} =>
        ~view.isAnimating /\ ~view.timerPending


\* C16: for a focused node F the active set is F, every node sharing an edge
\* with F in either direction, and every source or code node one further hop
\* outward from F or from one of those neighbours; a user node two hops from
\* F is not in the set; with no focused node, no node is dimmed.
C16_ActiveSet ==
    LET F == focusedNodeId
        SharesEdge(a, b) ==
            \E i \in 1..Len(edges) :
                \/ edges[i].source = a /\ edges[i].target = b
                \/ edges[i].source = b /\ edges[i].target = a
        PointsTo(a, b) ==
            \E i \in 1..Len(edges) : edges[i].source = a /\ edges[i].target = b
        ends == {edges[i].source : i \in 1..Len(edges)}
                    \cup {edges[i].target : i \in 1..Len(edges)}
        near == {F} \cup {b \in ends : SharesEdge(F, b)}
        isSourceOrCode(id) ==
            \E k \in 1..Len(nodes) : nodes[k].id = id /\ nodes[k].type \in {"source", "code"}
        expected == near \cup {c \in ends : isSourceOrCode(c) /\ \E a \in near : PointsTo(a, c)}
    IN  IF F = ""
        THEN \A k \in 1..Len(nodes) : ~isFaded(nodes[k])
        ELSE /\ activeNodeIds(F, edges, nodes) = [isNull |-> FALSE, ids |-> expected]
             /\ \A k \in 1..Len(nodes) : isFaded(nodes[k]) <=> nodes[k].id \notin expected
             /\ \A k \in 1..Len(nodes) :
                   /\ nodes[k].type = "user"
                   /\ ~SharesEdge(F, nodes[k].id)
                   /\ nodes[k].id # F
                   => isFaded(nodes[k])

\* A is focused, A - B and B -> source or code node C: C is active; a user
\* node two hops from A is dimmed
C16_Witness ==
    /\ focusedNodeId # ""
    /\ \E i, j \in 1..Len(edges), k \in 1..Len(nodes) :
          /\ focusedNodeId \in {edges[i].source, edges[i].target}
          /\ edges[j].source \in {edges[i].source, edges[i].target} \ {focusedNodeId}
          /\ edges[j].target = nodes[k].id
          /\ nodes[k].type \in {"source", "code"}
          /\ ~isFaded(nodes[k])
    /\ \E i, j \in 1..Len(edges), k \in 1..Len(nodes) :
          /\ focusedNodeId \in {edges[i].source, edges[i].target}
          /\ edges[j].source \in {edges[i].source, edges[i].target} \ {focusedNodeId}
          /\ edges[j].target = nodes[k].id
          /\ nodes[k].type = "user"
          /\ isFaded(nodes[k])


\* C27: the request of a turn carries at most 15 nodes, the last 15 of the
\* pre-existing nodes followed by the new user node (the new user node always
\* included, the provisional AI node never), and its edge list is exactly
\* the set of diagram edges with at least one endpoint among those nodes.
C27_RequestWindow ==
    lastOp.kind \in {"send", "regenerate", "saveEdit"} /\ lastOp.ok =>
        LET request == lastOp.request
            earlier == SelectSeq(nodes, LAMBDA n : n.id \notin {lastOp.user, lastOp.ai})
            withUser == Append(earlier, NodeById(nodes, lastOp.user))
            first == IF Len(withUser) > 15 THEN Len(withUser) - 14 ELSE 1
            sent == Ids(request.nodes)
            \* the edges of the diagram the turn starts from: all but the
            \* two edges wired to the new nodes
            diagramEdges == {edges[j] : j \in {k \in 1..Len(edges) :
                                edges[k].target \notin {lastOp.user, lastOp.ai}}}
        IN  /\ Len(request.nodes) <= 15
            /\ request.nodes = [k \in 1..(Len(withUser) - first + 1) |-> withUser[first + k - 1]]
            /\ lastOp.user \in sent
            /\ lastOp.ai \notin sent
            /\ {request.edges[j] : j \in 1..Len(request.edges)}
                   = {e \in diagramEdges : e.source \in sent \/ e.target \in sent}

\* C28: a size measurement (id, w, h) leaves the node list unchanged when the
\* node is absent or already has width w and height h; otherwise it changes
\* only that node's width and height; applying the same measurement twice
\* gives the same state as applying it once.
MeasuredWidths == {NODE_WIDTH, CODE_NODE_WIDTH}
MeasuredHeights == {USER_NODE_HEIGHT, AI_NODE_BASE_HEIGHT, TallReplyHeight}
C28_MeasurementIsIdempotent ==
    \A id \in Ids(nodes) \cup {GhostId}, w \in MeasuredWidths, h \in MeasuredHeights :
        LET after == MeasuredNodes(nodes, id, w, h)
            present == \E i \in 1..Len(nodes) : nodes[i].id = id
        IN  /\ Len(after) = Len(nodes)
            /\ (~present \/ \A i \in 1..Len(nodes) :
                                nodes[i].id = id => nodes[i].width = w /\ nodes[i].height = h)
                   => after = nodes
            /\ \A i \in 1..Len(nodes) :
                  IF nodes[i].id = id
                  THEN /\ after[i].width = w
                       /\ after[i].height = h
                       /\ [after[i] EXCEPT !.width = 0, !.height = 0]
                              = [nodes[i] EXCEPT !.width = 0, !.height = 0]
                  ELSE after[i] = nodes[i]
            /\ MeasuredNodes(after, id, w, h) = after

\* a finished reply was measured taller than estimated while other nodes
\* were in the diagram, and the step changed that node only
C28_Witness ==
    /\ lastOp.kind = "measure"
    /\ Len(nodes) >= 3
    /\ \E i \in 1..Len(nodes) :
          /\ nodes[i].id = lastOp.node
          /\ nodes[i].height = TallReplyHeight
          /\ MeasuredNodes(nodes, nodes[i].id, nodes[i].width, AI_NODE_BASE_HEIGHT) # nodes
          /\ MeasuredNodes(nodes, nodes[i].id, nodes[i].width, nodes[i].height) = nodes


\* C30: for an edge drawn from node S to node T with distinct centres, the
\* start point lies on S's rectangle boundary on the line between the two
\* centres, and the end point (inset 15) lies on that same line outside T's
\* rectangle, 15 units short of T's boundary on the side facing S.
C30_EdgeStopsShortOfTarget ==
    LET \* where the segment from the centre of a towards the centre of b
        \* leaves the rectangle of a
        Leaves(a, b) ==
            LET dx == b.position.x - a.position.x
                dy == b.position.y - a.position.y
                t == IF dx = 0 THEN Q(a.height, 2 * Abs(dy))
                     ELSE IF dy = 0 THEN Q(a.width, 2 * Abs(dx))
                     ELSE QMin(Q(a.width, 2 * Abs(dx)), Q(a.height, 2 * Abs(dy)))
            IN  [x |-> QAdd(QInt(a.position.x), QMul(t, QInt(dx))),
                 y |-> QAdd(QInt(a.position.y), QMul(t, QInt(dy)))]
        QAbs(q) == IF q.n < 0 THEN QSub(QInt(0), q) ELSE q
        Outside(p, a) ==
            \/ QLess(Q(a.width, 2), QAbs(QSub(p.x, QInt(a.position.x))))
            \/ QLess(Q(a.height, 2), QAbs(QSub(p.y, QInt(a.position.y))))
        drawn == drawnEdges(nodes, edges, focusedNodeId)
    IN  \A k \in 1..Len(drawn) :
            \A j \in 1..Len(edges) :
                edges[j].id = drawn[k].id =>
                    LET S == nodes[nodeMapGet(nodes, edges[j].source)]
                        T == nodes[nodeMapGet(nodes, edges[j].target)]
                        dx == S.position.x - T.position.x
                        dy == S.position.y - T.position.y
                        short == QDiv(QInt(15), Norm(dx, dy))
                    IN  S.position # T.position =>
                            /\ drawn[k].start = Leaves(S, T)
                            /\ drawn[k].end.x = QAdd(Leaves(T, S).x, QMul(short, QInt(dx)))
                            /\ drawn[k].end.y = QAdd(Leaves(T, S).y, QMul(short, QInt(dy)))
                            /\ Outside(drawn[k].end, T)

\* ------------------------------------------------- the streamed response
\* the strings given to the stream callback, joined in call order
RECURSIVE JoinAll(_)
JoinAll(texts) ==
    IF texts = <<>> THEN <<>> ELSE Head(texts) \o JoinAll(Tail(texts))

TextOf(nodeId) == NodeById(nodes, nodeId).data.text
TurnInPlace ==
    /\ [i \in 1..Len(nodes) |-> nodes[i].id] = <<"start-node", "user-0", "ai-0">>
    /\ edges = <<Edge("start-node", "user-0"), Edge("user-0", "ai-0")>>
    /\ NodeById(nodes, "ai-0").position = ThinkingNode.position

\* C22: when the 60 s timer fires before the collaborator has sent a
\* response, the request is aborted, and the call that ends on this abort
\* has delivered the timeout message as the text of the provisional node,
\* returns no sources and no structured fields, and leaves the node and
\* its edges in place with the loading flags cleared.
C22_TimeoutEndsTheTurn ==
    /\ svc.pc = "fetch" /\ svc.deadlinePassed => svc.aborted
    /\ svc.pc = "returned" /\ svc.caught = "AbortError" =>
           /\ svc.aborted
           /\ svc.streamed = <<ErrorNoticePrefix \o TimeoutMessage>>
           /\ TextOf("ai-0") = ErrorNoticePrefix \o TimeoutMessage
           /\ svc.result.sources = <<>>
           /\ svc.result.fields = NoFields
           /\ svc.result.fullText = <<>>
           /\ TurnInPlace
           /\ ~NodeById(nodes, "ai-0").data.isLoading
           /\ ~isLoading

C22_Witness ==
    /\ svc.pc = "returned"
    /\ svc.caught = "AbortError"
    /\ svc.deadlinePassed
    /\ svc.received = <<>>

\* C23: once the 60 s timer of a call would have fired, the call is not
\* still waiting: it has returned or its request has been cancelled.
C23_NoWaitPastTheTimer ==
    svc.deadlinePassed /\ svc.pc \in {"fetch", "read"} => svc.aborted

\* C24: when streamGroundedResponse has returned, on whichever path, its
\* 60 s timer is no longer pending.
C24_NoTimerAfterReturn ==
    svc.pc = "returned" => ~svc.timerPending

\* C25: when the collaborator has reported an error during the call (a
\* non-success status, a transport error, an error record in the stream),
\* the call that has returned did not return as a success and the error
\* notice was given to the stream callback for the provisional node.
C25_ErrorsSurface ==
    svc.pc = "returned" /\ svc.errors # <<>> =>
        /\ svc.via = "catch"
        /\ \E i \in 1..Len(svc.streamed) :
              /\ svc.streamedAt[i] = 0
              /\ SubSeq(svc.streamed[i], 1, 1) = ErrorNoticePrefix
        /\ SubSeq(TextOf("ai-0"), Len(svc.fullText) + 1, Len(svc.fullText) + 1)
               = ErrorNoticePrefix

FirstMarked(received) ==
    IF \E i \in 1..Len(received) :
          received[i].kind = "chunk" /\ IndexOf(received[i].text, Marker) # 0
    THEN CHOOSE i \in 1..Len(received) :
          /\ received[i].kind = "chunk" /\ IndexOf(received[i].text, Marker) # 0
          /\ \A j \in 1..(i - 1) :
                ~(received[j].kind = "chunk" /\ IndexOf(received[j].text, Marker) # 0)
    ELSE Len(received)

\* C26: while a stream is read and when it has ended in success, the
\* stream callback has been called at most once for each data record
\* received, in the order of arrival; the full text is the strings given
\* to the callback joined in that order; and no call was made for a
\* record that came after the one with the structured-block marker.
C26_CallbackFollowsTheStream ==
    svc.pc = "read" \/ (svc.pc = "returned" /\ svc.via = "success") =>
        /\ \A i \in 1..Len(svc.streamedAt) : svc.streamedAt[i] \in 1..Len(svc.received)
        /\ \A i, j \in 1..Len(svc.streamedAt) : i < j => svc.streamedAt[i] < svc.streamedAt[j]
        /\ svc.fullText = JoinAll(svc.streamed)
        /\ svc.pc = "returned" => svc.result.fullText = JoinAll(svc.streamed)
        /\ TextOf("ai-0") = JoinAll(svc.streamed)
        /\ \A i \in 1..Len(svc.streamedAt) : svc.streamedAt[i] <= FirstMarked(svc.received)

C26_Witness ==
    /\ svc.pc = "returned"
    /\ svc.via = "success"
    /\ Len(svc.received) = 3
    /\ FirstMarked(svc.received) = 2
    /\ svc.received[3].kind = "chunk" /\ svc.received[3].text # <<>>
    /\ Len(svc.streamed) = 2

BlockOf(received) ==
    LET m == FirstMarked(received)
        marked == received # <<>> /\ received[m].kind = "chunk"
                  /\ IndexOf(received[m].text, Marker) # 0
    IN  IF ~marked THEN <<>>
        ELSE SubSeq(received[m].text, IndexOf(received[m].text, Marker) + 1,
                    Len(received[m].text))
             \o JoinAll([i \in 1..(Len(received) - m) |->
                            IF received[m + i].kind = "chunk" THEN received[m + i].text
                            ELSE <<>>])
ReceivedSources(received) ==
    IF GroundedRecord \in Range(received) THEN <<[uri |-> "u1", title |-> <<"s">>]>> ELSE <<>>
FailedCall ==
    \/ svc.caught \in {"AbortError", "TypeError", "Error"}
    \/ "transport" \in Range(svc.errors)
    \/ "status" \in Range(svc.errors)

\* C29: when the stream has ended without a transport failure and its
\* structured block is absent or is not valid JSON, the call has returned
\* as a success without giving an error notice to the callback; it returns
\* the text received and the grounding sources, and position, sourceNodeId,
\* reasoning, weather, stock and code are absent from the result.
C29_MalformedBlockDegrades ==
    /\ svc.pc = "returned"
    /\ ~FailedCall
    /\ Trim(ReplaceFences(BlockOf(svc.received))) # ValidJson
    => /\ svc.via = "success"
       /\ svc.caught = ""
       /\ \A i \in 1..Len(svc.streamedAt) : svc.streamedAt[i] # 0
       /\ svc.result.fullText = JoinAll(svc.streamed)
       /\ svc.result.sources = ReceivedSources(svc.received)
       /\ svc.result.fields = NoFields

C29_Witness ==
    /\ svc.pc = "returned"
    /\ svc.via = "success"
    /\ svc.inJsonBlock
    /\ Trim(ReplaceFences(BlockOf(svc.received))) \notin {<<>>, ValidJson}
    /\ svc.result.fullText # <<>>
    /\ svc.result.sources # <<>>

\* ------------------------------------------------ the viewport, live diagram
\* C31: once an animated camera move has set the animating flag, the flag
\* returns to false, whether or not input follows and whatever renders of
\* App, focus changes and diagram updates happen in between.
C31_AnimationEnds == view.isAnimating ~> ~view.isAnimating

PointerEvent(e) ==
    \/ e.kind \in {"mousedown", "mousemove"}
    \/ e.kind \in {"touchstart", "touchmove"} /\ e.touches = 1
PointerMoved ==
    /\ view'.moves = view.moves + 1
    /\ \/ view'.last.kind = "mousemove"
       \/ view'.last.kind = "touchmove" /\ view'.last.touches = 1
DiagramChanged == nodes' # nodes \/ edges' # edges

C34_OneViewportMode ==
    Cardinality({m \in {"Panning", "Pinching", "Animating"} :
                    \/ m = "Panning" /\ view.isInteracting
                    \/ m = "Pinching" /\ view.lastPinchDist > 0
                    \/ m = "Animating" /\ view.isAnimating}) <= 1

FocusRequested(nodeId) ==
    \/ \E timer \in timers \ timers' : timer.id = nodeId
    \/ /\ view'.last.kind = "focus" /\ lastOp'.kind = "focus" /\ lastOp'.node = nodeId
       /\ timers' = timers
    \/ view'.last.kind = "click" /\ focusedNodeId' = nodeId /\ view'.last # view.last

\* C35: a focusOnNode call for a node of the diagram, from a node click or
\* from a deferred focus request, leaves scale 1, a translation that puts
\* the node's position at the centre of the view, and the animating flag
\* set; a call for an id that is not in the diagram changes neither the
\* transform nor the animating flag.
C35_FocusCentresNode ==
    [][\A nodeId \in Ids(nodes) \cup {GhostId} :
          FocusRequested(nodeId) =>
              IF nodeId \in Ids(nodes)
              THEN LET node == nodes[CHOOSE i \in 1..Len(nodes) : nodes[i].id = nodeId]
                       t == view'.transform
                   IN  /\ t.scale = QInt(1)
                       /\ QAdd(QMul(QInt(node.position.x), t.scale), t.x)
                              = Q(view.clientWidth, 2)
                       /\ QAdd(QMul(QInt(node.position.y), t.scale), t.y)
                              = Q(view.clientHeight, 2)
                       /\ view'.isAnimating
              ELSE /\ view'.transform = view.transform
                   /\ view'.isAnimating = view.isAnimating]_vars

\* a node click has moved the camera onto a node that is not at the place
\* the camera was on
C35_Witness ==
    /\ view.last.kind = "click"
    /\ focusedNodeId \notin {"", "start-node"}
    /\ view.isAnimating
    /\ view.transform # view.last.prev

\* C32: the busy flag is true in every state in which some turn awaits its
\* response, and false when no turn is outstanding.
C32_BusyWhileAwaiting == isLoading <=> inflight # {}

\* ------------------------------------------------------- sizing by itself
\* SpecSize applies estimateAiNodeSize to the data of one reply while text
\* is appended to it piece by piece; `now` counts the pieces.
MaxAppends == 4
LongLine == [i \in 1..500 |-> "x"]
ManyLines == [i \in 1..15 |-> "\n"]
TextPieces == {<<"x">>, <<"\n">>, LongLine, ManyLines}
SizedReply(data) ==
    MkNode("ai-0", "ai", data, [x |-> 373, y |-> 1069],
           estimateAiNodeSize(data).width, estimateAiNodeSize(data).height)

InitSize ==
    /\ \E w \in BOOLEAN, s \in BOOLEAN, r \in BOOLEAN :
          nodes = <<SizedReply([NoData EXCEPT !.weather = w, !.stock = s, !.reasoning = r])>>
    /\ edges = <<>>
    /\ isLoading = FALSE
    /\ focusedNodeId = ""
    /\ editingNodeId = ""
    /\ lastUserNodeId = "start-node"
    /\ inflight = {}
    /\ timers = {}
    /\ now = 0
    /\ exhausted = {}
    /\ lastOp = NoOp
    /\ place = NoPlacement
    /\ view = MountedView(800, 600)
    /\ svc = NoCall

\* the estimate of the reply with `piece` appended to its text
EstimateAppended(piece) ==
    /\ now < MaxAppends
    /\ now' = now + 1
    /\ nodes' = <<SizedReply([nodes[1].data EXCEPT !.text = @ \o piece])>>
    /\ UNCHANGED <<edges, isLoading, focusedNodeId, editingNodeId, lastUserNodeId,
                   inflight, timers, exhausted, lastOp, place, view, svc>>

NextSize == \E piece \in TextPieces : EstimateAppended(piece)

SpecSize == InitSize /\ [][NextSize]_vars

\* the height of the claim, in hundredths
ClampedSumX100(data) ==
    LET textHeight ==
            IF Len(data.text) = 0 THEN 0
            ELSE IF 20 * 100 * LineCount(data.text) >= 45 * Len(data.text)
                 THEN 20 * 100 * LineCount(data.text)
                 ELSE 45 * Len(data.text)
        sum == 40 * 100
               + (IF data.weather THEN 70 * 100 ELSE 0)
               + (IF data.stock THEN 90 * 100 ELSE 0)
               + (IF data.reasoning THEN 60 * 100 ELSE 0)
               + textHeight
    IN  IF sum < 150 * 100 THEN 150 * 100
        ELSE IF sum > 800 * 100 THEN 800 * 100 ELSE sum

\* C36: for every content shape the estimator returns width 350 and the
\* height 40 + 70 (weather) + 90 (stock) + 60 (reasoning) + max(20 * lines,
\* 0.45 * characters) for a non-empty text, clamped into [150, 800]; the
\* height stays in [150, 800] and does not decrease when text is appended.
C36_EstimateIsClampedSum ==
    /\ [](LET size == estimateAiNodeSizeX100(nodes[1].data)
          IN  /\ size.width = 350 * 100
              /\ size.height = ClampedSumX100(nodes[1].data)
              /\ size.height >= 150 * 100 /\ size.height <= 800 * 100)
    /\ [][estimateAiNodeSizeX100(nodes'[1].data).height
            >= estimateAiNodeSizeX100(nodes[1].data).height]_vars

\* every addend is present, the character count decides the text height, and
\* the sum lies strictly inside the clamp
C36_Witness ==
    LET data == nodes[1].data
    IN  /\ data.weather /\ data.stock /\ data.reasoning
        /\ 45 * Len(data.text) > 2000 * LineCount(data.text)
        /\ estimateAiNodeSizeX100(data).height = 26000 + 45 * Len(data.text)
        /\ estimateAiNodeSizeX100(data).height < 80000

\* the direction Math.random() picked, recovered from the loop's variables:
\* every probe turns the angle by pi/3.5, two of the model's directions
InitialAngle(st) == (st.angle + (NumDirs - 2) * st.turn) % NumDirs

\* the square of the distance between two points
Dist2(p, q) == (p.x - q.x) * (p.x - q.x) + (p.y - q.y) * (p.y - q.y)

\* C37: the k-th probe of findNonOverlappingPosition (k >= 1) lies at distance
\* 250 + 150 * floor((k - 1) / 7) from the original desired position, at the
\* initial angle plus k - 1 turns of pi/3.5, wherever earlier probes landed;
\* the returned position is the desired position or at most 4450 away from it.
\* (Coordinates are whole numbers in the model: distances are met to within 2.)
C37_ProbesCentreOnStart ==
    /\ [](LET k == place.st.turn
              ring == 250 + 150 * ((k - 1) \div 7)
          IN  /\ k = 0 => place.st.pos = place.startPos
              /\ k >= 1 =>
                    /\ place.st.pos = Polar(place.startPos, ring,
                                            InitialAngle(place.st) + 2 * (k - 1))
                    /\ Dist2(place.st.pos, place.startPos) >= (ring - 2) * (ring - 2)
                    /\ Dist2(place.st.pos, place.startPos) <= (ring + 2) * (ring + 2)
              /\ place.pc = "done" =>
                    \/ place.st.pos = place.startPos
                    \/ Dist2(place.st.pos, place.startPos) <= (4450 + 2) * (4450 + 2))
    /\ [][InitialAngle(place.st') = InitialAngle(place.st)]_vars

\* the search is in its second ring, nine probes after the desired position
C37_Witness ==
    /\ place.pc = "loop"
    /\ place.st.turn = TurnsPerRing + 2
    /\ place.st.step = InitialStep + StepIncrease
    /\ place.st.pos # place.startPos

\* -------------------------------------------------- descendants by itself
\* SpecDesc runs the while loop of getDescendants pass by pass over an edge
\* list that may hold cycles, self-loops, repeated edges and edges into the
\* start node; `place` holds the loop's variables.
MaxEdges == 3
DescIds == {"n", "a", "b"}
DescEdges == {Edge(source, target) : source \in DescIds, target \in DescIds}
EdgeLists == UNION {[1..len -> DescEdges] : len \in 0..MaxEdges}

InitDesc ==
    /\ nodes = <<StartNode>>
    /\ edges \in EdgeLists
    /\ isLoading = FALSE
    /\ focusedNodeId = ""
    /\ editingNodeId = ""
    /\ lastUserNodeId = "start-node"
    /\ inflight = {}
    /\ timers = {}
    /\ now = 0
    /\ exhausted = {}
    /\ lastOp = NoOp
    /\ place = [pc |-> "loop", startNodeId |-> "n", passes |-> 0,
                st |-> [queue |-> <<"n">>, visited |-> {"n"}, descendants |-> {}]]
    /\ view = MountedView(800, 600)
    /\ svc = NoCall

\* one pass of while (queue.length > 0): queue.shift(), then edges.forEach
DescendantsPass ==
    /\ place.pc = "loop"
    /\ place.st.queue # <<>>
    /\ place' = [place EXCEPT
                    !.passes = @ + 1,
                    !.st = VisitEdges(edges, 1, Head(place.st.queue),
                                      [place.st EXCEPT !.queue = Tail(place.st.queue)])]
    /\ UNCHANGED <<appVars, view, svc>>

\* return descendants
DescendantsReturn ==
    /\ place.pc = "loop"
    /\ place.st.queue = <<>>
    /\ place' = [place EXCEPT !.pc = "done"]
    /\ UNCHANGED <<appVars, view, svc>>

NextDesc == DescendantsPass \/ DescendantsReturn

SpecDesc == InitDesc /\ [][NextDesc]_vars

\* the loop is synchronous code: a pass that can run does run
SpecDescFair == SpecDesc /\ WF_vars(NextDesc)

\* the ids that a walk of one or more edges, each from its source to its
\* target, reaches from `from`
ReachedByEdges(from, es) ==
    {id \in DescIds :
        \E len \in 1..Cardinality(DescIds) :
            \E walk \in [0..len -> DescIds] :
                /\ walk[0] = from
                /\ walk[len] = id
                /\ \A i \in 1..len :
                      \E j \in 1..Len(es) :
                          es[j].source = walk[i - 1] /\ es[j].target = walk[i]}

\* C38: getDescendants(N) terminates on every finite edge list, cycles and
\* self-loops included, and returns exactly the ids other than N that one or
\* more edges, followed from source to target, reach from N: N is never in
\* the result and no edge is followed from its target to its source.
C38_DescendantsAreReachable ==
    /\ [](place.passes <= Cardinality(place.st.visited))
    /\ [](Cardinality(place.st.visited) <= Cardinality(DescIds))
    /\ (place.pc = "loop" ~> place.pc = "done")
    /\ [](place.pc = "done" =>
            /\ place.st.descendants = ReachedByEdges(place.startNodeId, edges)
                                          \ {place.startNodeId}
            /\ place.st.descendants = getDescendants(place.startNodeId, edges)
            /\ place.startNodeId \notin place.st.descendants)

\* the traversal has returned from a cycle through the start node that also
\* has an edge into it from an id the start node does not reach
C38_Witness ==
    /\ place.pc = "done"
    /\ place.st.descendants = {"a"}
    /\ \E i, j, k \in 1..Len(edges) :
          /\ edges[i].source = "n" /\ edges[i].target = "a"
          /\ edges[j].source = "a" /\ edges[j].target = "n"
          /\ edges[k].source = "b" /\ edges[k].target = "a"

\* C39: in every state of the diagram the source and the target of every
\* edge are ids of nodes of the diagram.
C39_NoDanglingEdges ==
    \A i \in 1..Len(edges) :
        edges[i].source \in Ids(nodes) /\ edges[i].target \in Ids(nodes)

\* the provisional node of a turn has been through the deletion of
\* handleRegenerate or handleSaveEdit: it is gone from the node list, or
\* (all that deletion achieves, see C1 and C2) no edge leads to it any more
ProvisionalDeleted(turn) ==
    \/ turn.aiNodeId \notin Ids(nodes)
    \/ \A i \in 1..Len(edges) : edges[i].target # turn.aiNodeId

====
